---- MODULE Spec2Model ----
(***************************************************************************)
(* Model of the session store of bourbon (SessionManager in               *)
(* lib/advanced-middleware.js) and of the request handler that uses it.   *)
(*                                                                         *)
(* The store is a JavaScript Map: it is modelled as the sequence of its    *)
(* values in insertion order (a Map iterates in insertion order, set() on  *)
(* an existing key keeps the key's position).  Date.now() is the variable  *)
(* `now`, which only the Tick action advances; every handler is one        *)
(* synchronous run and reads one value of the clock.                       *)
(*                                                                         *)
(* The middleware pipeline (AdvancedMiddleware) is modelled with its three *)
(* handler lists and, per exchange, the execute calls in flight: a call    *)
(* runs from one await to the next in one step, and the steps of the calls *)
(* of different exchanges interleave.  The rate limiter is the handler     *)
(* rateLimiter() returns, with the Map of timestamps it closes over.       *)
(***************************************************************************)
EXTENDS Integers, Sequences, FiniteSets, TLC

VARIABLES
    sessions,     \* this.sessions: the stored sessions, in Map insertion order
    now,          \* Date.now()
    nextId,       \* position of the id generator (the next unseen random id)
    last,         \* the operation that ran last, with its arguments
    ret,          \* what that operation returned (or the failure it raised)
    swept,        \* what the sweep inside that operation removed: [stale, cap]
    touched,      \* history: per id, the time of its last successful lookup (0: none)
    createLog,    \* history: the sessions created since construction, while
                  \* nothing but createSession, the timer and the clock has run
    onlyCreates,  \* history: createLog is still meaningful
    pc,           \* per exchange: where handleProxyRequest stands
    held,         \* per exchange: the id of the session its lookup returned (0: none)
    middlewares,  \* this.middlewares: per phase, the handlers in registration order
    stack,        \* per exchange: the execute calls in flight, the innermost last
    trace,        \* history: per exchange, what its execute call has done so far
    requests,     \* the rate limiter's Map: per client address, its timestamps
    asked,        \* history: per client address, its requests since it had none recorded
                  \* and the last times it was admitted
    limiters      \* the Maps of the rate limiters made by further rateLimiter() calls

pipelineVars == <<middlewares, stack, trace>>
limiterVars == <<requests, asked, limiters>>

vars == <<sessions, now, nextId, last, ret, swept, touched, createLog, onlyCreates, pc, held,
          pipelineVars, limiterVars>>

(***************************************************************************)
(* Bounds of the model and the options the store is constructed with.      *)
(***************************************************************************)
MaxSessions == 2
SessionTimeout == 1
MaxTime == 3
MaxIds == 3
NumExchanges == 2
MaxHandlers == 3
WindowMs == 1
MaxRequests == 2

Ids == 1..MaxIds
Exchanges == 1..NumExchanges

\* the keys of this.middlewares
Phases == {"request", "response", "error"}

\* the client addresses the rate limiter's Map gets as keys
Clients == {"a", "unknown"}

(***************************************************************************)
(* JavaScript values.  Every value is a record [t, s, m]: its type tag, its *)
(* text (strings, booleans, numbers) and its entries (Map, array of pairs,  *)
(* plain object), so that values of different types can be compared.        *)
(***************************************************************************)
Null == [t |-> "null", s |-> "", m |-> <<>>]
Undefined == [t |-> "undefined", s |-> "", m |-> <<>>]
Str(x) == [t |-> "string", s |-> x, m |-> <<>>]
NewMap(entries) == [t |-> "Map", s |-> "", m |-> entries]
Arr(entries) == [t |-> "array", s |-> "", m |-> entries]
Obj(entries) == [t |-> "object", s |-> "", m |-> entries]

\* JavaScript truthiness, as `||` and `&&` and `if` test it.
Truthy(v) ==
    ~ \/ v.t \in {"null", "undefined"}
      \/ v.t = "string" /\ v.s = ""
      \/ v.t = "chars" /\ v.m = << >>
      \/ v.t = "boolean" /\ v.s = "false"
      \/ v.t = "number" /\ v.s = "0"

\* a || b
OrElse(a, b) == IF Truthy(a) THEN a ELSE b

IsMap(v) == v.t = "Map"

\* Position of key k in a list of <<key, value>> entries (0: absent).
EntryIndex(entries, k) ==
    IF \E i \in 1..Len(entries) : entries[i][1] = k
    THEN CHOOSE i \in 1..Len(entries) : entries[i][1] = k
    ELSE 0

\* Map.prototype.set on the entries of a Map.
EntriesSet(entries, k, v) ==
    LET i == EntryIndex(entries, k)
    IN  IF i = 0 THEN Append(entries, <<k, v>>)
        ELSE [entries EXCEPT ![i] = <<k, v>>]

\* new Map(iterable of pairs): set() of each pair in turn.
RECURSIVE EntriesFrom(_, _)
EntriesFrom(pairs, acc) ==
    IF pairs = <<>> THEN acc
    ELSE EntriesFrom(Tail(pairs), EntriesSet(acc, Head(pairs)[1], Head(pairs)[2]))

\* String.prototype.endsWith / startsWith on strings held as character sequences.
endsWith(str, suffix) ==
    /\ Len(suffix) <= Len(str)
    /\ SubSeq(str, Len(str) - Len(suffix) + 1, Len(str)) = suffix

startsWith(str, prefix) ==
    /\ Len(prefix) <= Len(str)
    /\ SubSeq(str, 1, Len(prefix)) = prefix

(***************************************************************************)
(* The Map of sessions.                                                    *)
(***************************************************************************)
IdsOf(ss) == {ss[i].id : i \in 1..Len(ss)}

Has(ss, id) == id \in IdsOf(ss)

IndexOf(ss, id) == CHOOSE i \in 1..Len(ss) : ss[i].id = id

\* this.sessions.get(id), for an id the Map has
Get(ss, id) == ss[IndexOf(ss, id)]

\* this.sessions.set(id, s)
MapSet(ss, s) ==
    IF Has(ss, s.id) THEN [ss EXCEPT ![IndexOf(ss, s.id)] = s]
    ELSE Append(ss, s)

\* this.sessions.delete(id): the Map without the key
MapDelete(ss, id) == SelectSeq(ss, LAMBDA s : s.id # id)

(***************************************************************************)
(* createSession's session object.  options holds customProxy, userAgent,  *)
(* headers and settings as JavaScript values (Undefined when not given).   *)
(***************************************************************************)
DefaultSettings ==
    << <<"enableJavaScript", "true">>, <<"enableCookies", "true">>,
       <<"enableLocalStorage", "true">>, <<"enableWebSockets", "true">> >>

\* { ...defaults, ...options.settings }: spreading a non-object adds nothing
SpreadOver(defaults, v) ==
    IF v.t = "object" THEN EntriesFrom(v.m, defaults) ELSE defaults

NewSession(id, t, options) ==
    [id |-> id,
     createdAt |-> t,
     lastAccessed |-> t,
     data |-> [cookies |-> NewMap(<<>>),
               localStorage |-> NewMap(<<>>),
               sessionStorage |-> NewMap(<<>>),
               customProxy |-> OrElse(options.customProxy, Null),
               userAgent |-> OrElse(options.userAgent, Null),
               headers |-> OrElse(options.headers, Obj(<<>>)),
               settings |-> Obj(SpreadOver(DefaultSettings, options.settings))]]

NoOptions ==
    [customProxy |-> Undefined, userAgent |-> Undefined,
     headers |-> Undefined, settings |-> Undefined]

(***************************************************************************)
(* cleanupOldSessions: the staleness pass, then the capacity pass.         *)
(***************************************************************************)
IsStaleByAge(s, t) == t - s.createdAt > SessionTimeout
IsStale(s, t) == t - s.lastAccessed > SessionTimeout

RemoveStale(ss, t) == SelectSeq(ss, LAMBDA s : ~ IsStale(s, t))

\* the comparator handed to Array.prototype.sort
ReverseLastAccessed(a, b) == b.lastAccessed - a.lastAccessed
CompareLastAccessed(a, b) == a.lastAccessed - b.lastAccessed

\* Array.prototype.sort is stable (ECMAScript 2019): x goes after every element
\* that does not compare greater than it.
InsertSorted(sorted, x) ==
    LET k == Cardinality({i \in 1..Len(sorted) : CompareLastAccessed(sorted[i], x) <= 0})
    IN  SubSeq(sorted, 1, k) \o <<x>> \o SubSeq(sorted, k + 1, Len(sorted))

RECURSIVE SortedByLastAccessed(_)
SortedByLastAccessed(ss) ==
    IF ss = <<>> THEN <<>>
    ELSE InsertSorted(SortedByLastAccessed(SubSeq(ss, 1, Len(ss) - 1)), ss[Len(ss)])

ExcessOffByOne(ss) == Len(ss) - MaxSessions - 1
Excess(ss) == Len(ss) - MaxSessions

RemoveYoungest(ss) ==
    IF Len(ss) > MaxSessions
    THEN LET sorted == SortedByLastAccessed(ss)
             victims == {sorted[i].id : i \in (MaxSessions + 1)..Len(ss)}
         IN  SelectSeq(ss, LAMBDA s : s.id \notin victims)
    ELSE ss

RemoveOldest(ss) ==
    IF Len(ss) > MaxSessions
    THEN LET sorted == SortedByLastAccessed(ss)
             victims == {sorted[i].id : i \in 1..Excess(ss)}
         IN  SelectSeq(ss, LAMBDA s : s.id \notin victims)
    ELSE ss

SweepOnlyWhenFull(ss, t) ==
    IF Len(ss) > MaxSessions THEN RemoveOldest(RemoveStale(ss, t)) ELSE ss
cleanupOldSessions(ss, t) == RemoveOldest(RemoveStale(ss, t))

\* what one sweep removed, by pass
SweptBy(ss, t) ==
    [stale |-> IdsOf(ss) \ IdsOf(RemoveStale(ss, t)),
     cap |-> (IdsOf(ss) \cap IdsOf(RemoveStale(ss, t))) \ IdsOf(cleanupOldSessions(ss, t))]

NoSweep == [stale |-> {}, cap |-> {}]

(***************************************************************************)
(* The store's operations as functions of the store.                       *)
(***************************************************************************)
GetSessionUnlessExpired(ss, id, t) ==
    IF Has(ss, id) /\ ~ IsStale(Get(ss, id), t)
    THEN [ss EXCEPT ![IndexOf(ss, id)].lastAccessed = t]
    ELSE ss

GetSessionNoRefresh(ss, id, t) == ss
getSession(ss, id, t) ==
    IF Has(ss, id)
    THEN [ss EXCEPT ![IndexOf(ss, id)].lastAccessed = t]
    ELSE ss

\* Object.assign(target, source) on objects held as functions of their keys
AssignKeepingOld(target, source) ==
    [k \in DOMAIN target \cup DOMAIN source |->
        IF k \in DOMAIN target THEN target[k] ELSE source[k]]
ObjectAssign(target, source) ==
    [k \in DOMAIN target \cup DOMAIN source |->
        IF k \in DOMAIN source THEN source[k] ELSE target[k]]

\* an update that installs a session when there is none
UpdateOrCreate(ss, id, updates, t) ==
    IF Has(ss, id)
    THEN LET i == IndexOf(ss, id)
         IN  [ss EXCEPT ![i].data = ObjectAssign(ss[i].data, updates),
                        ![i].lastAccessed = t]
    ELSE Append(ss, [NewSession(id, t, NoOptions) EXCEPT
                        !.data = ObjectAssign(@, updates)])

updateSession(ss, id, updates, t) ==
    IF Has(ss, id)
    THEN LET i == IndexOf(ss, id)
         IN  [ss EXCEPT ![i].data = ObjectAssign(ss[i].data, updates),
                        ![i].lastAccessed = t]
    ELSE ss

DeleteFirst(ss, id) == IF ss = <<>> THEN ss ELSE Tail(ss)
deleteSession(ss, id) == MapDelete(ss, id)

\* the cookie setCookie stores; strings are character sequences, and an option
\* not given is the empty one
NewCookie(value, options) ==
    [value |-> value,
     domain |-> options.domain,
     path |-> IF options.path = <<>> THEN <<"/">> ELSE options.path,
     expires |-> "undefined",
     httpOnly |-> FALSE,
     secure |-> FALSE,
     sameSite |-> "Lax"]

MatchesDomainOnly(cookie, domain, path) ==
    ~ (cookie.domain # <<>> /\ ~ endsWith(domain, cookie.domain))
cookieMatches(cookie, domain, path) ==
    IF cookie.domain # <<>> /\ ~ endsWith(domain, cookie.domain) THEN FALSE
    ELSE IF cookie.path # <<>> /\ ~ startsWith(path, cookie.path) THEN FALSE
    ELSE TRUE

\* the loop of getCookies over the entries of the cookie Map, in order
RECURSIVE MatchingCookies(_, _, _)
MatchingCookies(entries, domain, path) ==
    IF entries = <<>> THEN <<>>
    ELSE LET e == Head(entries)
             rest == MatchingCookies(Tail(entries), domain, path)
         IN  IF cookieMatches(e[2], domain, path)
             THEN << <<e[1], e[2].value>> >> \o rest
             ELSE rest

Bool(b) == [t |-> "boolean", s |-> IF b THEN "true" ELSE "false", m |-> <<>>]
Threw(name) == [t |-> "throw", s |-> name, m |-> <<>>]

\* exportSession's object, for a session the store has: Array.from(map.entries())
\* of each Map, the other fields as they are.  A value without entries() makes
\* the call fail (the partials of this model put null or a plain object in a
\* Map's place, never an array).
CanExport(s) ==
    \A k \in {"cookies", "localStorage", "sessionStorage"} : IsMap(s.data[k])

ExportOf(s) ==
    [id |-> s.id,
     createdAt |-> s.createdAt,
     lastAccessed |-> s.lastAccessed,
     data |-> [cookies |-> Arr(s.data.cookies.m),
               localStorage |-> Arr(s.data.localStorage.m),
               sessionStorage |-> Arr(s.data.sessionStorage.m),
               customProxy |-> s.data.customProxy,
               userAgent |-> s.data.userAgent,
               headers |-> s.data.headers,
               settings |-> s.data.settings]]

\* new Map(x || []): needs an iterable of pairs
CanBuildMap(v) == ~ Truthy(v) \/ v.t \in {"array", "Map"}
MapFrom(v) == IF Truthy(v) THEN NewMap(EntriesFrom(v.m, <<>>)) ELSE NewMap(<<>>)

CanImport(sd) ==
    \A k \in {"cookies", "localStorage", "sessionStorage"} : CanBuildMap(sd.data[k])

\* importSession's session object; an id or a timestamp not given is 0.
ImportOf(sd, freshId, t) ==
    [id |-> IF sd.id # 0 THEN sd.id ELSE freshId,
     createdAt |-> IF sd.createdAt # 0 THEN sd.createdAt ELSE t,
     lastAccessed |-> IF sd.lastAccessed # 0 THEN sd.lastAccessed ELSE t,
     data |-> [cookies |-> MapFrom(sd.data.cookies),
               localStorage |-> MapFrom(sd.data.localStorage),
               sessionStorage |-> MapFrom(sd.data.sessionStorage),
               customProxy |-> OrElse(sd.data.customProxy, Null),
               userAgent |-> OrElse(sd.data.userAgent, Null),
               headers |-> OrElse(sd.data.headers, Obj(<<>>)),
               settings |-> OrElse(sd.data.settings, Obj(<<>>))]]

(***************************************************************************)
(* Initial state: the store as the constructor leaves it.                  *)
(***************************************************************************)
Init ==
    /\ sessions = <<>>
    /\ now = 1
    /\ nextId = 1
    /\ last = [op |-> "constructor"]
    /\ ret = Undefined
    /\ swept = NoSweep
    /\ touched = [i \in Ids |-> 0]
    /\ createLog = <<>>
    /\ onlyCreates = TRUE
    /\ pc = [p \in Exchanges |-> "idle"]
    /\ held = [p \in Exchanges |-> 0]
    /\ middlewares = [type \in Phases |-> << >>]
    /\ stack = [p \in Exchanges |-> << >>]
    /\ trace = [p \in Exchanges |-> << >>]
    /\ requests = << >>
    /\ asked = [c \in Clients |-> [first |-> 0, count |-> 0, admitted |-> << >>]]
    /\ limiters = << >>

\* crypto.randomBytes(16): 128 random bits, a value no earlier call returned
\* and no session imported so far carries.
RepeatedSessionId == IF nextId > 1 THEN nextId - 1 ELSE nextId
generateSessionId == nextId

\* history: ss2 is the store after the operation, hit the ids it accessed
\* successfully, forget the ids it installed anew
Touch(ss2, hit, forget) ==
    [i \in Ids |->
        IF i \notin IdsOf(ss2) \/ i \in forget THEN 0
        ELSE IF i \in hit THEN now
        ELSE touched[i]]

Poison == onlyCreates' = FALSE /\ createLog' = <<>>

\* an operation on session id that starts with getSession(id)
Accessed(ss2, id) ==
    /\ touched' = Touch(ss2, IF Has(sessions, id) THEN {id} ELSE {}, {})
    /\ Poison
    /\ swept' = NoSweep
    /\ UNCHANGED <<now, nextId, pc, held, pipelineVars, limiterVars>>

(***************************************************************************)
(* The clock and the cleanup timer.                                        *)
(***************************************************************************)
Tick ==
    /\ now < MaxTime
    /\ now' = now + 1
    /\ last' = [op |-> "tick"]
    /\ ret' = Undefined
    /\ swept' = NoSweep
    /\ UNCHANGED <<sessions, nextId, touched, createLog, onlyCreates, pc, held, pipelineVars, limiterVars>>

\* the setInterval callback of startCleanupTimer
TimerSweep ==
    /\ sessions' = cleanupOldSessions(sessions, now)
    /\ swept' = SweptBy(sessions, now)
    /\ last' = [op |-> "timer"]
    /\ ret' = Undefined
    /\ touched' = Touch(sessions', {}, {})
    /\ UNCHANGED <<now, nextId, createLog, onlyCreates, pc, held, pipelineVars, limiterVars>>

(***************************************************************************)
(* The store's public operations.                                          *)
(***************************************************************************)
CreateSession(options) ==
    /\ nextId <= MaxIds
    /\ LET sessionId == generateSessionId
           installed == MapSet(sessions, NewSession(sessionId, now, options))
       IN  /\ sessions' = cleanupOldSessions(installed, now)
           /\ swept' = SweptBy(installed, now)
           /\ last' = [op |-> "createSession", id |-> sessionId]
           /\ ret' = sessionId
           /\ touched' = Touch(sessions', {}, {sessionId})
           /\ createLog' = IF onlyCreates
                           THEN Append(createLog, [id |-> sessionId, createdAt |-> now])
                           ELSE createLog
    /\ nextId' = nextId + 1
    /\ UNCHANGED <<now, onlyCreates, pc, held, pipelineVars, limiterVars>>

GetSession(id) ==
    /\ sessions' = getSession(sessions, id, now)
    /\ ret' = IF Has(sessions, id) THEN Get(sessions', id) ELSE Undefined
    /\ last' = [op |-> "getSession", id |-> id]
    /\ Accessed(sessions', id)

UpdateSession(id, updates) ==
    /\ sessions' = updateSession(sessions, id, updates, now)
    /\ ret' = Bool(Has(sessions, id))
    /\ last' = [op |-> "updateSession", id |-> id, updates |-> updates]
    /\ Accessed(sessions', id)

DeleteSession(id) ==
    /\ sessions' = deleteSession(sessions, id)
    /\ ret' = Bool(Has(sessions, id))
    /\ last' = [op |-> "deleteSession", id |-> id]
    /\ touched' = Touch(sessions', {}, {})
    /\ Poison
    /\ swept' = NoSweep
    /\ UNCHANGED <<now, nextId, pc, held, pipelineVars, limiterVars>>

\* Map.prototype.get
MapGet(entries, k) ==
    IF EntryIndex(entries, k) = 0 THEN Undefined ELSE entries[EntryIndex(entries, k)][2]

\* session.data[field].set(k, v) on the session with this id
StoreEntry(ss, id, field, k, v) ==
    [ss EXCEPT ![IndexOf(ss, id)].data[field].m = EntriesSet(@, k, v)]

\* setCookie, setLocalStorage, setSessionStorage: getSession, then set() on the
\* Map of the field, which fails when the field holds no Map
SetEntry(id, field, k, v) ==
    LET found == getSession(sessions, id, now)
    IN  IF ~ Has(sessions, id)
        THEN sessions' = sessions /\ ret' = Bool(FALSE)
        ELSE IF ~ IsMap(Get(found, id).data[field])
        THEN sessions' = found /\ ret' = Threw("TypeError")
        ELSE sessions' = StoreEntry(found, id, field, k, v) /\ ret' = Bool(TRUE)

SetCookie(id, name, value, options) ==
    /\ SetEntry(id, "cookies", name, NewCookie(value, options))
    /\ last' = [op |-> "setCookie", id |-> id, name |-> name]
    /\ Accessed(sessions', id)

GetCookies(id, domain, path) ==
    /\ sessions' = getSession(sessions, id, now)
    /\ ret' = IF ~ Has(sessions, id) THEN Arr(<<>>)
              ELSE IF ~ IsMap(Get(sessions, id).data.cookies)
              THEN Threw("TypeError")
              ELSE Arr(MatchingCookies(Get(sessions, id).data.cookies.m, domain, path))
    /\ last' = [op |-> "getCookies", id |-> id, domain |-> domain, path |-> path]
    /\ Accessed(sessions', id)

SetLocalStorage(id, key, value) ==
    /\ SetEntry(id, "localStorage", key, Str(value))
    /\ last' = [op |-> "setLocalStorage", id |-> id, key |-> key]
    /\ Accessed(sessions', id)

SetSessionStorage(id, key, value) ==
    /\ SetEntry(id, "sessionStorage", key, Str(value))
    /\ last' = [op |-> "setSessionStorage", id |-> id, key |-> key]
    /\ Accessed(sessions', id)

\* getLocalStorage, getSessionStorage: session ? session.data[field].get(key) : null
GetEntry(id, field, key) ==
    /\ sessions' = getSession(sessions, id, now)
    /\ ret' = IF ~ Has(sessions, id) THEN Null
              ELSE IF ~ IsMap(Get(sessions, id).data[field]) THEN Threw("TypeError")
              ELSE MapGet(Get(sessions, id).data[field].m, key)

GetLocalStorage(id, key) ==
    /\ GetEntry(id, "localStorage", key)
    /\ last' = [op |-> "getLocalStorage", id |-> id, key |-> key]
    /\ Accessed(sessions', id)

GetSessionStorage(id, key) ==
    /\ GetEntry(id, "sessionStorage", key)
    /\ last' = [op |-> "getSessionStorage", id |-> id, key |-> key]
    /\ Accessed(sessions', id)

GetAllLocalStorage(id) ==
    /\ sessions' = getSession(sessions, id, now)
    /\ ret' = IF ~ Has(sessions, id) THEN Obj(<<>>)
              ELSE IF ~ IsMap(Get(sessions, id).data.localStorage)
              THEN Threw("TypeError")
              ELSE Obj(EntriesFrom(Get(sessions, id).data.localStorage.m, <<>>))
    /\ last' = [op |-> "getAllLocalStorage", id |-> id]
    /\ Accessed(sessions', id)

ExportSession(id) ==
    /\ sessions' = getSession(sessions, id, now)
    /\ ret' = IF ~ Has(sessions, id) THEN Null
              ELSE IF ~ CanExport(Get(sessions', id)) THEN Threw("TypeError")
              ELSE ExportOf(Get(sessions', id))
    /\ last' = [op |-> "exportSession", id |-> id]
    /\ Accessed(sessions', id)

\* importSession(sessionData).  An id the store has not seen (sd.id >= nextId)
\* is a value the generator will not return either.
ImportSession(sd) ==
    /\ IF sd.id = 0 THEN nextId <= MaxIds ELSE sd.id <= MaxIds
    /\ LET id == IF sd.id # 0 THEN sd.id ELSE generateSessionId
       IN  /\ nextId' = IF id >= nextId THEN id + 1 ELSE nextId
           /\ IF CanImport(sd)
              THEN /\ sessions' = MapSet(sessions, ImportOf(sd, generateSessionId, now))
                   /\ ret' = id
              ELSE /\ sessions' = sessions
                   /\ ret' = Threw("TypeError")
           /\ touched' = Touch(sessions', {}, {id})
    /\ last' = [op |-> "importSession", id |-> sd.id]
    /\ Poison
    /\ swept' = NoSweep
    /\ UNCHANGED <<now, pc, held, pipelineVars, limiterVars>>

\* x.size: the number of entries of a Map, the property "size" of a plain
\* object, nothing on a string or an array
SizeOf(v) ==
    IF IsMap(v) THEN Len(v.m)
    ELSE IF v.t = "object" THEN MapGet(v.m, "size")
    ELSE Undefined

\* reading a property of null or undefined fails
CanStat(s) ==
    \A k \in {"cookies", "localStorage", "sessionStorage"} :
        s.data[k].t \notin {"null", "undefined"}

\* the summary getStats gives of one session
SummaryOf(s) ==
    [id |-> s.id,
     createdAt |-> s.createdAt,
     lastAccessed |-> s.lastAccessed,
     cookieCount |-> SizeOf(s.data.cookies),
     localStorageCount |-> SizeOf(s.data.localStorage),
     sessionStorageCount |-> SizeOf(s.data.sessionStorage)]

\* the store after getStats has read it: this.sessions.values(), no getSession
StatsReadRefreshing(ss, t) == [i \in 1..Len(ss) |-> [ss[i] EXCEPT !.lastAccessed = t]]
StatsRead(ss, t) == ss

getStats(ss) ==
    [totalSessions |-> Len(ss),
     maxSessions |-> MaxSessions,
     sessionTimeout |-> SessionTimeout,
     sessions |-> [i \in 1..Len(ss) |-> SummaryOf(ss[i])]]

GetStats ==
    /\ sessions' = StatsRead(sessions, now)
    /\ ret' = IF \A i \in 1..Len(sessions) : CanStat(sessions[i])
              THEN getStats(sessions')
              ELSE Threw("TypeError")
    /\ last' = [op |-> "getStats"]
    /\ Poison
    /\ swept' = NoSweep
    /\ UNCHANGED <<now, nextId, touched, pc, held, pipelineVars, limiterVars>>

(***************************************************************************)
(* handleProxyRequest: the lookup of the exchange's session, then the      *)
(* transport's request, during which other handlers and the timer run.     *)
(***************************************************************************)
ProxyRequestStart(p, sessionId, hasTarget) ==
    /\ pc[p] = "idle"
    /\ IF ~ hasTarget
       THEN /\ UNCHANGED <<sessions, pc, held>>
            /\ ret' = 400
       ELSE /\ sessions' = IF sessionId # 0 THEN getSession(sessions, sessionId, now)
                           ELSE sessions
            /\ held' = [held EXCEPT ![p] =
                          IF sessionId # 0 /\ Has(sessions, sessionId) THEN sessionId ELSE 0]
            /\ pc' = [pc EXCEPT ![p] = "proxy.request"]
            /\ ret' = 0
    /\ last' = [op |-> "handleProxyRequest", exchange |-> p, id |-> sessionId]
    /\ touched' = Touch(sessions',
                        IF hasTarget /\ sessionId # 0 /\ Has(sessions, sessionId)
                        THEN {sessionId} ELSE {}, {})
    /\ Poison
    /\ swept' = NoSweep
    /\ UNCHANGED <<now, nextId, pipelineVars, limiterVars>>

\* proxy.request(req, res) completes: the exchange is over
ProxyRequestDone(p) ==
    /\ pc[p] = "proxy.request"
    /\ pc' = [pc EXCEPT ![p] = "idle"]
    /\ held' = [held EXCEPT ![p] = 0]
    /\ last' = [op |-> "proxy.request", exchange |-> p]
    /\ ret' = Undefined
    /\ swept' = NoSweep
    /\ UNCHANGED <<sessions, now, nextId, touched, createLog, onlyCreates, pipelineVars, limiterVars>>

(***************************************************************************)
(* The middleware pipeline.  A handler is the function use() was given: it *)
(* has an identity (the number of its registration) and either completes   *)
(* or fails; in both cases it has first left its mark on the context it    *)
(* was handed.  A context is the object {trail, error, request, response}  *)
(* of one exchange; a failure carries its message and its statusCode, 0    *)
(* when it has none.  A handler is of a kind: one of the handlers the      *)
(* class builds (rateLimiter, securityHeaders, errorHandler) or a plain    *)
(* function that completes or fails.                                       *)
(***************************************************************************)
NoError == [by |-> 0, phase |-> "", at |-> 0, statusCode |-> 0, message |-> ""]

\* the failure handler number `name` raises as handler i of a phase
Err(name, type, i) ==
    [by |-> name, phase |-> type, at |-> i, statusCode |-> 0, message |-> "failure"]

EmptyContext == [trail |-> << >>, error |-> NoError, request |-> Null, response |-> Null]

\* a function that is not one of the class's handlers
Plain(fails) == [kind |-> "plain", fails |-> fails]

\* { ...context, error }
OnlyError(context, error) == [EmptyContext EXCEPT !.error = error]
WithError(context, error) == [context EXCEPT !.error = error]

\* the context of the call itself once its catch block has built the copy
\* { ...context, error } for the error phase: the spread writes nothing to it
ErrorAttached(context, error) == [context EXCEPT !.error = error]
AfterCatch(context, error) == context

\* what a handler does to the context it was handed before it settles
Mutate(h, context) == [context EXCEPT !.trail = Append(@, h.name)]

\* the names that are properties of every object (Object.prototype)
Inherited == {"constructor", "toString", "hasOwnProperty", "valueOf"}

\* Array.prototype.push
Unshift(list, h) == <<h>> \o list
Push(list, h) == Append(list, h)

TotalHandlers == Len(middlewares.request) + Len(middlewares.response) + Len(middlewares.error)

\* use(type, middleware): this.middlewares[type] is a list, or an inherited
\* property that has no push, or nothing
Use(type, middleware) ==
    LET h == [name |-> TotalHandlers + 1, fails |-> middleware.fails,
              kind |-> middleware.kind]
    IN  /\ IF type \in Phases
           THEN /\ TotalHandlers < MaxHandlers
                /\ middlewares' = [middlewares EXCEPT ![type] = Push(@, h)]
                /\ ret' = Undefined
           ELSE /\ middlewares' = middlewares
                /\ ret' = IF type \in Inherited THEN Threw("TypeError")
                          ELSE Threw("Invalid middleware type")
        /\ last' = [op |-> "use", type |-> type, handler |-> h]
        /\ swept' = NoSweep
        /\ UNCHANGED <<sessions, now, nextId, touched, createLog, onlyCreates, pc, held,
                       stack, trace, limiterVars>>

\* the events of the history of a call: execute entered (i: the number of
\* handlers the phase had), handler i called, handler i settled
Event(ev, type, i, name, context, error) ==
    [ev |-> ev, type |-> type, i |-> i, name |-> name, context |-> context,
     error |-> error]

\* for (const middleware of middlewares): the handler iteration i yields, and
\* the iteration after it
HandlerFromEnd(list, i) == list[Len(list) + 1 - i]
HandlerAt(list, i) == list[i]

SkipIndex(i) == i + 2
NextIndex(i) == i + 1

\* if (type !== 'error')
EscalatesAlways(type) == TRUE
Escalates(type) == type # "error"

\* execute(type, context) is called with the calls stk in flight below it: it
\* runs up to its first await, the call of the first handler, or returns at
\* once when the phase has no handler
Enter(stk, tr, type, context) ==
    LET list == middlewares[type]
        entered == Append(tr, Event("execute", type, Len(list), 0, context, NoError))
    IN  IF list = << >>
        THEN [stack |-> stk, trace |-> entered, returned |-> TRUE]
        ELSE [stack |-> Append(stk, [type |-> type, context |-> context, i |-> 1,
                                     caught |-> NoError]),
              trace |-> Append(entered,
                               Event("start", type, 1, HandlerAt(list, 1).name,
                                     context, NoError)),
              returned |-> FALSE]

\* the calls in flight resume, the innermost first, after the call above them
\* has returned (outcome = NoError) or failed: each of them is in its catch
\* block awaiting execute('error', ...), and `throw error` is its next statement
RECURSIVE Unwind(_, _)
Unwind(stk, outcome) ==
    IF stk = << >> THEN outcome
    ELSE Unwind(SubSeq(stk, 1, Len(stk) - 1),
                IF outcome = NoError THEN stk[Len(stk)].caught ELSE outcome)

\* what the caller of the outermost execute gets: nothing, or the failure
Result(outcome) == IF outcome = NoError THEN Undefined ELSE outcome

(***************************************************************************)
(* The rate limiter: the handler rateLimiter({windowMs, maxRequests})      *)
(* returns, with the Map `requests` it closes over.  A request carries the *)
(* address of its connection and its x-forwarded-for header, "" when it    *)
(* has none.                                                               *)
(***************************************************************************)
\* request.connection?.remoteAddress || request.headers['x-forwarded-for'] || 'unknown'
ClientIP(request) ==
    IF request.remoteAddress # "" THEN request.remoteAddress
    ELSE IF request.forwardedFor # "" THEN request.forwardedFor
    ELSE "unknown"

\* while (clientRequests.length > 0 && clientRequests[0] <= windowStart) shift()
RECURSIVE RemoveOldOrEqual(_, _)
RemoveOldOrEqual(clientRequests, windowStart) ==
    IF clientRequests # << >> /\ Head(clientRequests) <= windowStart
    THEN RemoveOldOrEqual(Tail(clientRequests), windowStart)
    ELSE clientRequests

\* while (clientRequests.length > 0 && clientRequests[0] < windowStart) shift()
RECURSIVE RemoveOld(_, _)
RemoveOld(clientRequests, windowStart) ==
    IF clientRequests # << >> /\ Head(clientRequests) < windowStart
    THEN RemoveOld(Tail(clientRequests), windowStart)
    ELSE clientRequests

\* the timestamps the Map holds for an address
RequestsOf(reqs, clientIP) ==
    IF EntryIndex(reqs, clientIP) = 0 THEN << >> ELSE reqs[EntryIndex(reqs, clientIP)][2]

\* if (clientRequests.length >= maxRequests)
LimitPassed(clientRequests) == Len(clientRequests) > MaxRequests
LimitReached(clientRequests) == Len(clientRequests) >= MaxRequests

\* the error the handler throws
RateLimitExceeded ==
    [t |-> "throw", s |-> "Rate limit exceeded", m |-> << <<"statusCode", "429">> >>]

RecordingLimiter(reqs, clientIP, t) ==
    LET kept == RemoveOld(RequestsOf(reqs, clientIP), t - WindowMs)
    IN  [requests |-> EntriesSet(reqs, clientIP, Append(kept, t)),
         threw |-> LimitReached(kept)]

\* the handler on a request of clientIP at time t: the Map after it, and
\* whether it threw
rateLimiter(reqs, clientIP, t) ==
    LET kept == RemoveOld(RequestsOf(reqs, clientIP), t - WindowMs)
    IN  IF LimitReached(kept)
        THEN [requests |-> EntriesSet(reqs, clientIP, kept), threw |-> TRUE]
        ELSE [requests |-> EntriesSet(reqs, clientIP, Append(kept, t)), threw |-> FALSE]

\* history: the last MaxRequests + 1 times at which a request was admitted
LastAdmitted(admitted, t) ==
    IF Len(admitted) <= MaxRequests THEN Append(admitted, t)
    ELSE Append(Tail(admitted), t)

\* history: the requests of an address are counted from the one that found no
\* timestamp of the address inside the window; past MaxRequests + 2 the count
\* stays; a request that does not throw is an admitted one
Count(a, kept, t, threw) ==
    LET counted == IF kept = << >> THEN [a EXCEPT !.first = t, !.count = 1]
                   ELSE [a EXCEPT !.count = IF @ < MaxRequests + 2 THEN @ + 1 ELSE @]
    IN  IF threw THEN counted
        ELSE [counted EXCEPT !.admitted = LastAdmitted(@, t)]

(***************************************************************************)
(* The response of an exchange as the handlers use it: its status, its     *)
(* headers under their lower-cased names (setHeader, removeHeader and      *)
(* hasHeader ignore the case of a name), what end() was given, and whether *)
(* it has ended.  Once it has ended its headers are sent, and setHeader    *)
(* and removeHeader fail.                                                  *)
(***************************************************************************)
NewResponse(headers) ==
    [statusCode |-> 200, headers |-> headers, body |-> << >>, ended |-> FALSE]

toLowerCase(name) ==
    CASE name = "Strict-Transport-Security" -> "strict-transport-security"
      [] name = "Content-Security-Policy" -> "content-security-policy"
      [] name = "X-Frame-Options" -> "x-frame-options"
      [] name = "X-Content-Type-Options" -> "x-content-type-options"
      [] name = "Referrer-Policy" -> "referrer-policy"
      [] name = "Permissions-Policy" -> "permissions-policy"
      [] name = "X-Proxy-By" -> "x-proxy-by"
      [] name = "Content-Type" -> "content-type"
      [] OTHER -> name

hasHeader(response, name) == EntryIndex(response.headers, toLowerCase(name)) # 0

setHeader(response, name, value) ==
    [response EXCEPT !.headers = EntriesSet(@, toLowerCase(name), value)]

removeHeader(response, name) ==
    [response EXCEPT !.headers = SelectSeq(@, LAMBDA e : e[1] # toLowerCase(name))]

end(response, data) == [response EXCEPT !.body = data, !.ended = TRUE]

\* the failure of handler number `name` with a message and a statusCode
Raised(name, type, i, statusCode, message) ==
    [by |-> name, phase |-> type, at |-> i, statusCode |-> statusCode,
     message |-> message]

\* the headers securityHeaders removes, in its order
SecurityHeaderNames ==
    <<"Strict-Transport-Security", "Content-Security-Policy", "X-Frame-Options",
      "X-Content-Type-Options", "Referrer-Policy", "Permissions-Policy">>

\* securityHeaders.forEach(header => response.removeHeader(header))
RECURSIVE RemoveHeaders(_, _)
RemoveHeaders(response, names) ==
    IF names = << >> THEN response
    ELSE RemoveHeaders(removeHeader(response, Head(names)), Tail(names))

\* the response after the handler securityHeaders() returns has completed
securityHeaders(response) ==
    setHeader(setHeader(RemoveHeaders(response, SecurityHeaderNames),
                        "X-Proxy-By", "Bourbon"),
              "X-Content-Type-Options", "nosniff")

\* error.statusCode || 500
ServerErrorAlways(error) == 500
StatusOf(error) == IF error.statusCode # 0 THEN error.statusCode ELSE 500

\* the page errorHandler writes: its heading and the message of the failure
ErrorPage(message) == <<"Proxy Error", message>>

\* the response after the handler errorHandler() returns has completed
errorHandler(error, response) ==
    end(setHeader([response EXCEPT !.statusCode = StatusOf(error)],
                  "Content-Type", "text/html; charset=utf-8"),
        ErrorPage(error.message))

\* the functions the class builds, as use() is given them
Builtin(kind) == [kind |-> kind, fails |-> FALSE]

\* handler h is called as handler i of a phase with a context, while the rate
\* limiter's Map is reqs and the clock shows t: the context when it settles,
\* its failure if it fails, and the Map
Run(h, type, i, context, reqs, t) ==
    LET marked == Mutate(h, context)
        completes(c) == [context |-> c, error |-> NoError, requests |-> reqs]
        throws(c, e) == [context |-> c, error |-> e, requests |-> reqs]
        sent == Raised(h.name, type, i, 0, "ERR_HTTP_HEADERS_SENT")
    IN  CASE h.kind = "rateLimiter" ->
                 IF marked.request = Null THEN completes(marked)
                 ELSE LET r == rateLimiter(reqs, ClientIP(marked.request), t)
                      IN  [context |-> marked,
                           error |-> IF r.threw
                                     THEN Raised(h.name, type, i, 429,
                                                 RateLimitExceeded.s)
                                     ELSE NoError,
                           requests |-> r.requests]
          [] h.kind = "securityHeaders" ->
                 IF marked.response = Null THEN completes(marked)
                 ELSE IF marked.response.ended THEN throws(marked, sent)
                 ELSE completes([marked EXCEPT !.response = securityHeaders(@)])
          [] h.kind = "errorHandler" ->
                 IF marked.error = NoError \/ marked.response = Null
                 THEN completes(marked)
                 ELSE IF marked.response.ended
                 THEN throws([marked EXCEPT !.response.statusCode =
                                                StatusOf(marked.error)], sent)
                 ELSE completes([marked EXCEPT !.response =
                                                errorHandler(marked.error, @)])
          [] OTHER ->
                 IF h.fails THEN throws(marked, Err(h.name, type, i))
                 ELSE completes(marked)

\* exchange p calls execute(type, context)
Execute(p, type, context) ==
    /\ stack[p] = << >>
    /\ LET e == Enter(<< >>, << >>, type, context)
       IN  /\ stack' = [stack EXCEPT ![p] = e.stack]
           /\ trace' = [trace EXCEPT ![p] = e.trace]
           /\ last' = [op |-> "execute", exchange |-> p, done |-> e.returned,
                       context |-> context]
           /\ ret' = Undefined
    /\ swept' = NoSweep
    /\ UNCHANGED <<sessions, now, nextId, touched, createLog, onlyCreates, pc, held,
                   middlewares, limiterVars>>

\* the handler that the innermost call of exchange p awaits settles, and the
\* call runs on to its next await or to its end
Settle(p) ==
    /\ stack[p] # << >>
    /\ LET stk == stack[p]
           f == stk[Len(stk)]
           below == SubSeq(stk, 1, Len(stk) - 1)
           list == middlewares[f.type]
           h == HandlerAt(list, f.i)
           r == Run(h, f.type, f.i, f.context, requests, now)
           context == r.context
           error == r.error
           ended == Append(trace[p], Event("end", f.type, f.i, h.name, context, error))
           next == NextIndex(f.i)
           \* history: last.context is the object the caller of the outermost
           \* call passed in, as it is now
           finish(outcome, mine) ==
               /\ stack' = [stack EXCEPT ![p] = << >>]
               /\ last' = [op |-> "settle", exchange |-> p, done |-> TRUE,
                           context |-> IF below = << >> THEN mine ELSE below[1].context]
               /\ ret' = Result(Unwind(below, outcome))
           goOn(stk2) ==
               /\ stack' = [stack EXCEPT ![p] = stk2]
               /\ last' = [op |-> "settle", exchange |-> p, done |-> FALSE,
                           context |-> stk2[1].context]
               /\ ret' = Undefined
       IN  IF error = NoError
           THEN IF next <= Len(list)
                THEN /\ trace' = [trace EXCEPT ![p] =
                                    Append(ended, Event("start", f.type, next,
                                                        HandlerAt(list, next).name,
                                                        context, NoError))]
                     /\ goOn(Append(below, [f EXCEPT !.context = context, !.i = next]))
                ELSE /\ trace' = [trace EXCEPT ![p] = ended]
                     /\ finish(NoError, context)
           ELSE IF Escalates(f.type)
                THEN LET mine == AfterCatch(context, error)
                         e == Enter(Append(below, [f EXCEPT !.context = mine,
                                                           !.caught = error]),
                                    ended, "error", WithError(context, error))
                     IN  /\ trace' = [trace EXCEPT ![p] = e.trace]
                         /\ IF e.returned
                            THEN finish(error, mine)
                            ELSE goOn(e.stack)
                ELSE /\ trace' = [trace EXCEPT ![p] = ended]
                     /\ finish(error, context)
    /\ LET stk == stack[p]
           f == stk[Len(stk)]
           h == HandlerAt(middlewares[f.type], f.i)
       IN  /\ requests' = Run(h, f.type, f.i, f.context, requests, now).requests
           /\ limiters' = limiters
           /\ asked' = IF h.kind = "rateLimiter" /\ f.context.request # Null
                       THEN LET clientIP == ClientIP(f.context.request)
                            IN  [asked EXCEPT ![clientIP] =
                                    Count(@, RemoveOld(RequestsOf(requests, clientIP),
                                                       now - WindowMs), now,
                                          Run(h, f.type, f.i, f.context, requests,
                                              now).error # NoError)]
                       ELSE asked
    /\ swept' = NoSweep
    /\ UNCHANGED <<sessions, now, nextId, touched, createLog, onlyCreates, pc, held,
                   middlewares>>

(***************************************************************************)
(* The rate limiter called on its own.                                     *)
(***************************************************************************)
\* the handler is called with a context; request is its request, or Null
RateLimiter(request) ==
    /\ IF request = Null
       THEN /\ UNCHANGED <<requests, asked>>
            /\ ret' = Undefined
            /\ last' = [op |-> "rateLimiter", ip |-> ""]
       ELSE LET clientIP == ClientIP(request)
                r == rateLimiter(requests, clientIP, now)
            IN  /\ requests' = r.requests
                /\ ret' = IF r.threw THEN RateLimitExceeded ELSE Undefined
                /\ last' = [op |-> "rateLimiter", ip |-> clientIP]
                /\ asked' = [asked EXCEPT ![clientIP] =
                                Count(@, RemoveOld(RequestsOf(requests, clientIP),
                                                   now - WindowMs), now, r.threw)]
    /\ limiters' = limiters
    /\ swept' = NoSweep
    /\ UNCHANGED <<sessions, now, nextId, touched, createLog, onlyCreates, pc, held,
                   pipelineVars>>

(***************************************************************************)
(* Further rate limiters.  Every call of rateLimiter() runs                *)
(* `const requests = new Map()` and returns a handler closed over that     *)
(* Map.  The Map of the limiter above is `requests`, at place 0; the Map   *)
(* of the k-th further call is limiters[k].                                *)
(***************************************************************************)
\* the further calls of rateLimiter(), in their order
FurtherCalls == {1}

\* as if the one Map belonged to the class and every handler used it
MapOfTheClass(k) == 0

\* the place of the Map the handler of the k-th further call closes over
MapCreatedBy(k) == k

\* rateLimiter(): a new handler with a new Map
CreateRateLimiter ==
    /\ Len(limiters) + 1 \in FurtherCalls
    /\ limiters' = Append(limiters, << >>)
    /\ last' = [op |-> "createRateLimiter"]
    /\ ret' = Undefined
    /\ swept' = NoSweep
    /\ UNCHANGED <<sessions, now, nextId, touched, createLog, onlyCreates, pc, held,
                   pipelineVars, requests, asked>>

\* the handler of the k-th further call is called with a context
CreatedRateLimiter(k, request) ==
    /\ k \in 1..Len(limiters)
    /\ IF request = Null
       THEN /\ UNCHANGED <<requests, limiters>>
            /\ ret' = Undefined
            /\ last' = [op |-> "createdRateLimiter", limiter |-> k, ip |-> ""]
       ELSE LET clientIP == ClientIP(request)
                at == MapCreatedBy(k)
                r == rateLimiter(IF at = 0 THEN requests ELSE limiters[at], clientIP, now)
            IN  /\ IF at = 0
                   THEN requests' = r.requests /\ limiters' = limiters
                   ELSE limiters' = [limiters EXCEPT ![at] = r.requests]
                        /\ requests' = requests
                /\ ret' = IF r.threw THEN RateLimitExceeded ELSE Undefined
                /\ last' = [op |-> "createdRateLimiter", limiter |-> k, ip |-> clientIP]
    /\ swept' = NoSweep
    /\ UNCHANGED <<sessions, now, nextId, touched, createLog, onlyCreates, pc, held,
                   pipelineVars, asked>>

(***************************************************************************)
(* The content rewriter.  Where the characters of a JavaScript string      *)
(* matter it is held as the sequence of its characters, Chars(seq).        *)
(***************************************************************************)
Chars(seq) == [t |-> "chars", s |-> "", m |-> seq]

Http == <<"h", "t", "t", "p">>
Https == <<"h", "t", "t", "p", "s">>
Gateway ==
    <<"/", "a", "p", "i", "/", "g", "a", "t", "e", "w", "a", "y", "?", "u", "r", "l", "=">>

UpperCase ==
    <<"A", "B", "C", "D", "E", "F", "G", "H", "I", "J", "K", "L", "M",
      "N", "O", "P", "Q", "R", "S", "T", "U", "V", "W", "X", "Y", "Z">>
LowerCase ==
    <<"a", "b", "c", "d", "e", "f", "g", "h", "i", "j", "k", "l", "m",
      "n", "o", "p", "q", "r", "s", "t", "u", "v", "w", "x", "y", "z">>
Letters == {UpperCase[i] : i \in 1..26} \cup {LowerCase[i] : i \in 1..26}

\* ASCII lower-casing, of a character and of a string
ToLower(c) ==
    IF \E i \in 1..26 : UpperCase[i] = c
    THEN LowerCase[CHOOSE i \in 1..26 : UpperCase[i] = c]
    ELSE c
Lower(str) == [i \in 1..Len(str) |-> ToLower(str[i])]

\* the place of the first character of str that is in set, 0 when none is
IndexOfAny(str, set) ==
    IF \E i \in 1..Len(str) : str[i] \in set
    THEN CHOOSE i \in 1..Len(str) :
             str[i] \in set /\ \A j \in 1..(i - 1) : str[j] \notin set
    ELSE 0

\* the place of the last character of str that is c, 0 when none is
LastIndexOf(str, c) ==
    IF \E i \in 1..Len(str) : str[i] = c
    THEN CHOOSE i \in 1..Len(str) :
             str[i] = c /\ \A j \in (i + 1)..Len(str) : str[j] # c
    ELSE 0

From(str, i) == SubSeq(str, i, Len(str))
Upto(str, i) == SubSeq(str, 1, i)

\* String.prototype.includes
Includes(str, sub) ==
    \E i \in 0..(Len(str) - Len(sub)) : SubSeq(str, i + 1, i + Len(sub)) = sub

\* new URL(url) for the strings of the form scheme://host[:port][path]: it
\* fails on a string without a scheme or without a host, it lower-cases the
\* scheme and the host, and it skips the slashes after the colon
InvalidURL ==
    [ok |-> FALSE, protocol |-> << >>, host |-> << >>, hostname |-> << >>, path |-> << >>]

RECURSIVE SkipSlashes(_)
SkipSlashes(str) ==
    IF str # << >> /\ Head(str) = "/" THEN SkipSlashes(Tail(str)) ELSE str

ParseURL(url) ==
    LET colon == IndexOfAny(url, {":"})
        scheme == Lower(Upto(url, colon - 1))
        rest == SkipSlashes(From(url, colon + 1))
        stop == IndexOfAny(rest, {"/", "?", "#"})
        host == Lower(IF stop = 0 THEN rest ELSE Upto(rest, stop - 1))
        port == IndexOfAny(host, {":"})
    IN  IF \/ colon < 2
           \/ \E i \in 1..Len(scheme) : scheme[i] \notin Letters
           \/ host = << >> \/ port = 1
        THEN InvalidURL
        ELSE [ok |-> TRUE, protocol |-> scheme \o <<":">>, host |-> host,
              hostname |-> IF port = 0 THEN host ELSE Upto(host, port - 1),
              path |-> IF stop = 0 THEN << >> ELSE From(rest, stop)]

\* url.href: the path of an http(s) URL is never empty
Href(u) ==
    u.protocol \o <<"/", "/">> \o u.host
        \o (IF u.path = << >> \/ Head(u.path) # "/" THEN <<"/">> ELSE << >>) \o u.path

\* new URL(relative, baseUrl) for a relative reference that begins with ./ or
\* ../: the directory of the base's path, one level up for each ../
Directory(path) ==
    LET cut == IndexOfAny(path, {"?", "#"})
        only == IF cut = 0 THEN path ELSE Upto(path, cut - 1)
    IN  IF LastIndexOf(only, "/") = 0 THEN <<"/">> ELSE Upto(only, LastIndexOf(only, "/"))

Parent(dir) ==
    IF Len(dir) <= 1 THEN <<"/">>
    ELSE Upto(dir, LastIndexOf(Upto(dir, Len(dir) - 1), "/"))

RECURSIVE ResolveDots(_, _)
ResolveDots(dir, relative) ==
    IF startsWith(relative, <<".", "/">>) THEN ResolveDots(dir, From(relative, 3))
    ELSE IF startsWith(relative, <<".", ".", "/">>)
    THEN ResolveDots(Parent(dir), From(relative, 4))
    ELSE dir \o relative

Resolve(relative, baseUrl) ==
    [baseUrl EXCEPT !.path = ResolveDots(Directory(baseUrl.path), relative)]

\* encodeURIComponent: letters, digits and - _ . ! ~ * ' ( ) stay, every other
\* character becomes % and the two hexadecimal digits of its code
Reserved ==
    << <<":", "3", "A">>, <<"/", "2", "F">>, <<"?", "3", "F">>, <<"=", "3", "D">>,
       <<"&", "2", "6">>, <<"%", "2", "5">>, <<"#", "2", "3">>, <<" ", "2", "0">>,
       <<"+", "2", "B">>, <<"@", "4", "0">>, <<"$", "2", "4">>, <<",", "2", "C">>,
       <<";", "3", "B">> >>

Escape(c) ==
    IF EntryIndex(Reserved, c) = 0 THEN <<c>>
    ELSE <<"%">> \o Tail(Reserved[EntryIndex(Reserved, c)])

RECURSIVE encodeURIComponent(_)
encodeURIComponent(str) ==
    IF str = << >> THEN << >> ELSE Escape(Head(str)) \o encodeURIComponent(Tail(str))

\* decodeURIComponent: % and two hexadecimal digits become the character of
\* that code; a % that is not followed by them is a URIError
DecodeFailed == <<"URIError">>

Unescape(hi, lo) ==
    IF \E i \in 1..Len(Reserved) : Tail(Reserved[i]) = <<hi, lo>>
    THEN <<Reserved[CHOOSE i \in 1..Len(Reserved) : Tail(Reserved[i]) = <<hi, lo>>][1]>>
    ELSE DecodeFailed

RECURSIVE decodeURIComponent(_)
decodeURIComponent(str) ==
    IF str = << >> THEN << >>
    ELSE IF Head(str) # "%"
    THEN LET rest == decodeURIComponent(Tail(str))
         IN  IF rest = DecodeFailed THEN DecodeFailed ELSE <<Head(str)>> \o rest
    ELSE IF Len(str) < 3 \/ Unescape(str[2], str[3]) = DecodeFailed THEN DecodeFailed
    ELSE LET rest == decodeURIComponent(From(str, 4))
         IN  IF rest = DecodeFailed THEN DecodeFailed
             ELSE Unescape(str[2], str[3]) \o rest

\* this.blockedDomains.some(domain => urlObj.hostname.includes(domain))
Blocked(rw, hostname) ==
    \E i \in 1..Len(rw.blockedDomains) : Includes(hostname, rw.blockedDomains[i])

\* rewriteURL(url, targetUrl) of the rewriter rw: what it returns
rewriteURL(rw, url, targetUrl) ==
    IF ~ Truthy(url) \/ url.t # "chars" THEN url
    ELSE LET baseUrl == IF targetUrl.t = "chars" THEN ParseURL(targetUrl.m)
                        ELSE InvalidURL
             \* the string the try block has in url when it parses it; << >>
             \* stands for the two ways out before that
             absolute ==
                 IF startsWith(url.m, <<"/">>)
                 THEN IF baseUrl.ok
                      THEN baseUrl.protocol \o <<"/", "/">> \o baseUrl.host \o url.m
                      ELSE << >>
                 ELSE IF startsWith(url.m, <<".", "/">>)
                         \/ startsWith(url.m, <<".", ".", "/">>)
                 THEN IF baseUrl.ok THEN Href(Resolve(url.m, baseUrl)) ELSE << >>
                 ELSE IF ~ startsWith(url.m, Http) THEN << >>
                 ELSE url.m
             urlObj == ParseURL(absolute)
         IN  IF absolute = << >> THEN url
             ELSE IF ~ urlObj.ok THEN Chars(absolute)
             ELSE IF Blocked(rw, urlObj.hostname) THEN Chars(absolute)
             ELSE Chars(rw.proxyUrl \o Gateway \o encodeURIComponent(absolute))

\* rewriter.rewriteURL(url, targetUrl) is called
RewriteURL(rw, url, targetUrl) ==
    /\ last' = [op |-> "rewriteURL", rewriter |-> rw, url |-> url,
                targetUrl |-> targetUrl]
    /\ ret' = rewriteURL(rw, url, targetUrl)
    /\ swept' = NoSweep
    /\ UNCHANGED <<sessions, now, nextId, touched, createLog, onlyCreates, pc, held,
                   pipelineVars, limiterVars>>

(***************************************************************************)
(* rewriteContent.  A content is a text of a syntax (HTML, CSS,            *)
(* JavaScript, JSON or none of them) with the URLs it holds in the places  *)
(* the rewriter of its syntax looks at, and what a rewriter has added to   *)
(* it; or a Buffer, or an empty string, or null.  A content type is the    *)
(* sequence of the tokens of its string.                                   *)
(***************************************************************************)
Content(syntax, urls) == [t |-> "content", s |-> syntax, m |-> urls, added |-> << >>]
Buffer == [t |-> "buffer", s |-> "", m |-> << >>]

\* the URLs of a content, each through rewriteURL
RewriteAll(rw, urls, targetUrl) ==
    [i \in 1..Len(urls) |-> rewriteURL(rw, urls[i], targetUrl)]

\* isURL(str)
isURL(str) == str.t = "chars" /\ ParseURL(str.m).ok

(***************************************************************************)
(* The document of an HTML content: its elements in document order, each   *)
(* with its tag and the value of the one attribute the passes look at.     *)
(***************************************************************************)
Element(tag, value) == [tag |-> tag, value |-> value]

\* the attribute of an element that the passes read and write
AttributeOf ==
    [a |-> "href", img |-> "src", form |-> "action", iframe |-> "src",
     meta |-> "content", div |-> "data-url", style |-> "textContent"]

\* the elements whose href, src or action is a property that reflects the
\* attribute as a URL
Reflecting == {"a", "img", "form", "iframe"}

\* element.href, element.src, element.action: the attribute parsed as a URL
\* and serialised, or the attribute as it is when it does not parse (the
\* document of new JSDOM(html) has no base to resolve a relative one by)
Property(element) ==
    IF element.value.t # "chars" THEN element.value
    ELSE LET parsed == ParseURL(element.value.m)
         IN  IF parsed.ok THEN Chars(Href(parsed)) ELSE element.value

\* a pass that does not call rewriteURL for an element
Nothing == [t |-> "nothing", s |-> "", m |-> << >>]

\* rewriteURLs(document, targetUrl) at one element: what it gives rewriteURL,
\* the element's href, src or action or its data- attribute that is a URL
rewriteURLs(element, property) ==
    IF element.tag \in Reflecting /\ Truthy(property) THEN property
    ELSE IF element.tag = "div" /\ isURL(element.value) THEN element.value
    ELSE Nothing

\* rewriteForms(document, targetUrl) at one element
rewriteForms(form, property, targetUrl) ==
    IF form.tag # "form" THEN Nothing
    ELSE IF Truthy(property) THEN property
    ELSE targetUrl

\* rewriteMetaTags(document, targetUrl) at one element
rewriteMetaTags(meta) ==
    IF meta.tag = "meta" /\ Truthy(meta.value) /\ isURL(meta.value) THEN meta.value
    ELSE Nothing

\* rewriteIframes(document, targetUrl) at one element
rewriteIframes(iframe, property) ==
    IF iframe.tag = "iframe" /\ Truthy(property) THEN property ELSE Nothing

\* a rule { selector, attribute } of applyCustomRules at one element, the
\* selector a tag
applyCustomRules(rule, element, property) ==
    IF /\ element.tag = rule.selector
       /\ element.tag \in Reflecting
       /\ AttributeOf[element.tag] = rule.attribute
       /\ Truthy(property)
    THEN property
    ELSE Nothing

\* the passes of rewriteHTML in the order of its try block, the custom rules
\* of the rewriter last
Pass(name) == [name |-> name, selector |-> "", attribute |-> ""]

PassesOf(rw) ==
    <<Pass("rewriteURLs"), Pass("rewriteForms"), Pass("rewriteMetaTags"),
      Pass("rewriteIframes")>>
    \o [i \in 1..Len(rw.rewriteRules) |->
            [name |-> "applyCustomRules", selector |-> rw.rewriteRules[i].selector,
             attribute |-> rw.rewriteRules[i].attribute]]

\* one pass at one element: element.x = this.rewriteURL(element.x, targetUrl);
\* rewriteURLs gives every style element the Promise that the async
\* rewriteCSS returns for its text
RewriteElement(rw, pass, element, targetUrl) ==
    LET property == Property(element)
        url == CASE pass.name = "rewriteURLs" -> rewriteURLs(element, property)
                 [] pass.name = "rewriteForms" -> rewriteForms(element, property, targetUrl)
                 [] pass.name = "rewriteMetaTags" -> rewriteMetaTags(element)
                 [] pass.name = "rewriteIframes" -> rewriteIframes(element, property)
                 [] OTHER -> applyCustomRules(pass, element, property)
    IN  IF pass.name = "rewriteURLs" /\ element.tag = "style"
        THEN [element EXCEPT !.value = Str("[object Promise]")]
        ELSE IF url = Nothing THEN element
        ELSE [element EXCEPT !.value = rewriteURL(rw, url, targetUrl)]

\* the passes one after the other over the whole document
RECURSIVE Passes(_, _, _, _)
Passes(rw, passes, document, targetUrl) ==
    IF passes = << >> THEN document
    ELSE Passes(rw, Tail(passes),
                [i \in 1..Len(document) |->
                    RewriteElement(rw, Head(passes), document[i], targetUrl)],
                targetUrl)

\* rewriteHTML: JSDOM parses whatever it is given; a custom rule that throws
\* ends in the catch block, which returns the html it was given
rewriteHTML(rw, html, options) ==
    IF rw.ruleThrows THEN html
    ELSE IF html.t # "content" THEN Content("html", << >>)
    ELSE [html EXCEPT !.m = IF html.s = "html"
                            THEN Passes(rw, PassesOf(rw), @, options.targetUrl) ELSE @,
                      !.added = Append(@, "proxy scripts")]

\* rewriter.rewriteHTML(html, options) is called
RewriteHTML(rw, html, options) ==
    /\ last' = [op |-> "rewriteHTML", rewriter |-> rw, html |-> html, options |-> options]
    /\ ret' = rewriteHTML(rw, html, options)
    /\ swept' = NoSweep
    /\ UNCHANGED <<sessions, now, nextId, touched, createLog, onlyCreates, pc, held,
                   pipelineVars, limiterVars>>

\* rewriteCSS: css.replace(...) of a value that is no string throws
rewriteCSS(rw, css, options) ==
    IF css.t # "content" THEN Threw("TypeError")
    ELSE IF css.s # "css" THEN css
    ELSE [css EXCEPT !.m = RewriteAll(rw, @, options.targetUrl)]

\* rewriteJavaScript: the same, and the session shim when there is a session
rewriteJavaScript(rw, js, options) ==
    IF js.t # "content" THEN Threw("TypeError")
    ELSE [js EXCEPT !.m = IF js.s = "javascript"
                          THEN RewriteAll(rw, @, options.targetUrl) ELSE @,
                    !.added = IF Truthy(options.sessionId)
                              THEN Append(@, "session management") ELSE @]

\* rewriteJSON: what JSON.parse rejects comes back as it is
rewriteJSON(rw, json, options) ==
    IF json.t # "content" \/ json.s # "json" THEN json
    ELSE [json EXCEPT !.m = [i \in 1..Len(@) |->
                                IF isURL(@[i])
                                THEN rewriteURL(rw, @[i], options.targetUrl)
                                ELSE @[i]]]

\* options = {}
NoRewriteOptions == [sessionId |-> Undefined, targetUrl |-> Undefined]

\* inside the try block: a rewriter that throws ends in the catch block
OrContent(result, content) == IF result = Threw("TypeError") THEN content ELSE result

\* rewriteContent(content, contentType, options): what the caller gets, the
\* value or the rejection
DestructuringThrows(options) == options = Null

rewriteContent(rw, content, contentType, options) ==
    IF ~ Truthy(content) THEN content
    ELSE IF DestructuringThrows(options) THEN Threw("TypeError")
    ELSE LET o == IF options \in {Undefined, Null} THEN NoRewriteOptions ELSE options
             is(type) == Includes(contentType.m, <<type>>)
         IN  IF contentType.t # "chars" THEN content
             ELSE IF is("text/html") THEN rewriteHTML(rw, content, o)
             ELSE IF is("text/css") THEN OrContent(rewriteCSS(rw, content, o), content)
             ELSE IF is("application/javascript")
             THEN OrContent(rewriteJavaScript(rw, content, o), content)
             ELSE IF is("application/json") THEN rewriteJSON(rw, content, o)
             ELSE content

\* rewriter.rewriteContent(content, contentType, options) is called
RewriteContent(rw, content, contentType, options) ==
    /\ last' = [op |-> "rewriteContent", rewriter |-> rw, content |-> content,
                contentType |-> contentType, options |-> options]
    /\ ret' = rewriteContent(rw, content, contentType, options)
    /\ swept' = NoSweep
    /\ UNCHANGED <<sessions, now, nextId, touched, createLog, onlyCreates, pc, held,
                   pipelineVars, limiterVars>>

(***************************************************************************)
(* Spec: the life cycle of sessions under the clock and the timer:         *)
(* sessions are created, imported under a fresh id with timestamps absent, *)
(* old or late, looked up, and swept.                                      *)
(***************************************************************************)
DataOptions ==
    [customProxy |-> Str("http://relay"), userAgent |-> Str("ua"),
     headers |-> Obj(<< <<"accept", "*/*">> >>),
     settings |-> Obj(<< <<"enableCookies", "false">> >>)]

NoData ==
    [cookies |-> Undefined, localStorage |-> Undefined, sessionStorage |-> Undefined,
     customProxy |-> Undefined, userAgent |-> Undefined,
     headers |-> Undefined, settings |-> Undefined]

LifeImports ==
    [id : {0}, createdAt : {0}, lastAccessed : {0, 1, MaxTime}, data : {NoData}]

Next ==
    \/ Tick
    \/ TimerSweep
    \/ CreateSession(NoOptions)
    \/ \E id \in Ids : GetSession(id)
    \/ \E sd \in LifeImports : ImportSession(sd)

Spec == Init /\ [][Next]_vars

(***************************************************************************)
(* SpecCapacity: nothing but createSession, the timer and the clock run on *)
(* the store the constructor left.                                         *)
(***************************************************************************)
NextCapacity ==
    \/ Tick
    \/ TimerSweep
    \/ \E o \in {NoOptions, DataOptions} : CreateSession(o)

SpecCapacity == Init /\ [][NextCapacity]_vars

(***************************************************************************)
(* SpecCookies: the cookie jar of the sessions.  Domains and paths are     *)
(* character sequences: "b" is a suffix of "ab" and only a part of "ba".   *)
(***************************************************************************)
\* the ids the calls name: a session that is written to, and one more that is
\* stored at times and absent at others
Written == {1}
Named == {1, 2}

CookieInputs ==
    {[name |-> "a", domain |-> << >>, path |-> << >>],
     [name |-> "a", domain |-> <<"b">>, path |-> <<"/", "x">>],
     [name |-> "b", domain |-> <<"b">>, path |-> << >>],
     [name |-> "b", domain |-> << >>, path |-> <<"/", "x">>]}
QueryDomains == {<< >>, <<"a", "b">>, <<"b", "a">>}
QueryPaths == {<<"/">>, <<"/", "x">>}

\* a partial that replaces the cookie Map by a plain object
CookieUpdates == {[cookies |-> Obj(<< >>)]}

NextCookies ==
    \/ CreateSession(NoOptions)
    \/ \E id \in Named, c \in CookieInputs :
          SetCookie(id, c.name, "v", [domain |-> c.domain, path |-> c.path])
    \/ \E id \in Named, d \in QueryDomains, p \in QueryPaths : GetCookies(id, d, p)
    \/ \E id \in Written, u \in CookieUpdates : UpdateSession(id, u)

SpecCookies == Init /\ [][NextCookies]_vars

(***************************************************************************)
(* SpecData: the data of the sessions: partial updates as the update       *)
(* endpoint accepts them, the storage mirrors, deletion, export and the    *)
(* import of what was exported.                                            *)
(***************************************************************************)
DataUpdates ==
    {[userAgent |-> Str("")],
     [settings |-> Obj(<< <<"enableWebSockets", "false">> >>), note |-> Str("n")],
     [localStorage |-> Null]}

\* session data as a client may hand it in: no id, and no list for the cookies
DataImports ==
    {[id |-> 0, createdAt |-> 0, lastAccessed |-> 0,
      data |-> [NoData EXCEPT !.cookies = Str("x")]]}

NextData ==
    \/ CreateSession(DataOptions)
    \/ \E id \in Written, u \in DataUpdates : UpdateSession(id, u)
    \/ \E id \in Named : DeleteSession(id)
    \/ \E id \in Written : SetCookie(id, "a", "v", [domain |-> << >>, path |-> << >>])
    \/ \E id \in Written : SetLocalStorage(id, "k", "1")
    \/ \E id \in Written : SetSessionStorage(id, "k", "1")
    \/ \E id \in Named : GetLocalStorage(id, "k")
    \/ \E id \in Named : GetSessionStorage(id, "k")
    \/ \E id \in Named : GetAllLocalStorage(id)
    \/ \E id \in Named : ExportSession(id)
    \/ \E id \in Named : GetSession(id)
    \/ \E id \in Named : GetCookies(id, << >>, <<"/">>)
    \/ \E sd \in DataImports : ImportSession(sd)
    \/ /\ last.op = "exportSession"
       /\ "id" \in DOMAIN ret
       /\ ImportSession(ret)

SpecData == Init /\ [][NextData]_vars

(***************************************************************************)
(* SpecExchange: exchanges in flight while sessions are created, the clock *)
(* advances and the timer fires.                                           *)
(***************************************************************************)
NextExchange ==
    \/ Tick
    \/ TimerSweep
    \/ CreateSession(NoOptions)
    \/ \E p \in Exchanges, id \in 0..MaxIds, hasTarget \in BOOLEAN :
          ProxyRequestStart(p, id, hasTarget)
    \/ \E p \in Exchanges : ProxyRequestDone(p)

SpecExchange == Init /\ [][NextExchange]_vars

(***************************************************************************)
(* SpecIds: sessions installed by createSession and by importSession, the  *)
(* latter without an id or under an id the client chose, which the store   *)
(* may hold already or which the generator has not reached yet.            *)
(***************************************************************************)
IdImports == [id : {0, 2}, createdAt : {0}, lastAccessed : {0}, data : {NoData}]

NextIds ==
    \/ Tick
    \/ CreateSession(NoOptions)
    \/ \E sd \in IdImports : ImportSession(sd)
    \/ \E id \in Named : DeleteSession(id)
    \/ \E id \in Named : SetLocalStorage(id, "k", "1")

SpecIds == Init /\ [][NextIds]_vars

(***************************************************************************)
(* SpecStats: the statistics of a store whose sessions hold cookies and    *)
(* storage entries and have been idle for a while.                         *)
(***************************************************************************)
StatsUpdates == {[localStorage |-> Null], [cookies |-> Obj(<< <<"size", Str("v")>> >>)]}

NextStats ==
    \/ Tick
    \/ CreateSession(NoOptions)
    \/ \E id \in Written : SetCookie(id, "a", "v", [domain |-> << >>, path |-> << >>])
    \/ \E id \in Written : SetLocalStorage(id, "k", "1")
    \/ \E id \in Written, u \in StatsUpdates : UpdateSession(id, u)
    \/ GetStats

SpecStats == Init /\ [][NextStats]_vars

(***************************************************************************)
(* SpecPipeline: handlers are registered, under right and wrong phase      *)
(* names, while one exchange runs the phases.                              *)
(***************************************************************************)
UseNames == Phases \cup {"bogus", "constructor"}

NextPipeline ==
    \/ \E type \in UseNames, fails \in BOOLEAN : Use(type, Plain(fails))
    \/ \E type \in Phases : Execute(1, type, EmptyContext)
    \/ Settle(1)

SpecPipeline == Init /\ [][NextPipeline]_vars

(***************************************************************************)
(* SpecConcurrent: several exchanges run the request phase of the same     *)
(* pipeline at once; handlers are registered while no call is in flight,   *)
(* as the entry point registers them when it is loaded.                    *)
(***************************************************************************)
Quiet == \A p \in Exchanges : stack[p] = << >>

NextConcurrent ==
    \/ \E fails \in BOOLEAN : Quiet /\ Use("request", Plain(fails))
    \/ Quiet /\ Use("error", Plain(FALSE))
    \/ \E p \in Exchanges : Execute(p, "request", EmptyContext)
    \/ \E p \in Exchanges : Settle(p)

SpecConcurrent == Init /\ [][NextConcurrent]_vars

(***************************************************************************)
(* SpecLimiter: requests of two addresses, found on the connection or in   *)
(* the x-forwarded-for header or nowhere, pass the rate limiter as time    *)
(* goes by.                                                                *)
(***************************************************************************)
RequestInputs ==
    {[remoteAddress |-> "a", forwardedFor |-> "b"],
     [remoteAddress |-> "", forwardedFor |-> "a"],
     [remoteAddress |-> "", forwardedFor |-> ""],
     Null}

NextLimiter ==
    \/ Tick
    \/ \E request \in RequestInputs : RateLimiter(request)

SpecLimiter == Init /\ [][NextLimiter]_vars

(***************************************************************************)
(* SpecLimiters: the limiter takes the requests of one address, and the    *)
(* limiter of a further rateLimiter() call those of that address and of    *)
(* another, as time goes by.                                               *)
(***************************************************************************)
LimiterInputs == {[remoteAddress |-> "a", forwardedFor |-> ""]}

LimitersInputs ==
    {[remoteAddress |-> "a", forwardedFor |-> ""],
     [remoteAddress |-> "", forwardedFor |-> ""],
     Null}

NextLimiters ==
    \/ Tick
    \/ CreateRateLimiter
    \/ \E request \in LimiterInputs : RateLimiter(request)
    \/ \E k \in FurtherCalls, request \in LimitersInputs : CreatedRateLimiter(k, request)

SpecLimiters == Init /\ [][NextLimiters]_vars

(***************************************************************************)
(* SpecHandlers: the class's handlers are registered on the phases they    *)
(* are written for, the rate limiter and a failing function on the request *)
(* phase, securityHeaders on the response phase and errorHandler on the    *)
(* error phase, and one exchange runs the request and the response phase   *)
(* on contexts with and without a request and a response.                  *)
(***************************************************************************)
UpstreamHeaders ==
    << <<"content-type", "text/css">>, <<"x-frame-options", "DENY">>,
       <<"x-content-type-options", "nosniff">>,
       <<"content-security-policy", "default-src 'self'">> >>

HandlerContexts ==
    [trail : {<< >>}, error : {NoError},
     request : {Null, [remoteAddress |-> "a", forwardedFor |-> ""]},
     response : {Null, NewResponse(<< >>), NewResponse(UpstreamHeaders)}]

NextHandlers ==
    \/ Quiet /\ Use("request", Builtin("rateLimiter"))
    \/ Quiet /\ Use("request", Plain(TRUE))
    \/ Quiet /\ Use("response", Builtin("securityHeaders"))
    \/ Quiet /\ Use("error", Builtin("errorHandler"))
    \/ \E type \in {"request", "response"}, context \in HandlerContexts :
           Execute(1, type, context)
    \/ Settle(1)

SpecHandlers == Init /\ [][NextHandlers]_vars

(***************************************************************************)
(* SpecRewriteURL: rewriters with and without a proxy address and a        *)
(* blocked domain rewrite absolute URLs of four schemes, five hosts and    *)
(* three paths, relative references, and strings that are no URL, against  *)
(* a target and against none.                                              *)
(***************************************************************************)
ProxyAddress == <<"h", "t", "t", "p", ":", "/", "/", "p">>
BlockedDomain == <<"b", ".", "c">>

Rewriters ==
    {[proxyUrl |-> ProxyAddress, blockedDomains |-> << >>],
     [proxyUrl |-> ProxyAddress, blockedDomains |-> <<BlockedDomain>>],
     [proxyUrl |-> << >>, blockedDomains |-> <<BlockedDomain>>]}

URLSchemes == {Http, Https, <<"H", "T", "T", "P">>, <<"f", "t", "p">>}

URLHosts ==
    {BlockedDomain, <<"a", ".">> \o BlockedDomain, BlockedDomain \o <<".", "a">>,
     <<"x">> \o BlockedDomain, <<"a", ".", "c">>}

URLPaths ==
    {<< >>, <<"/", "x">>,
     <<"/", "x", " ", "y", "?", "q", "=", "1", "&", "r", "=", "%", "2", "F", "#", "f">>}

AbsoluteURLs ==
    {scheme \o <<":", "/", "/">> \o host \o path :
         scheme \in URLSchemes, host \in URLHosts, path \in URLPaths}

OtherURLs ==
    {<< >>, <<"/", "x">>, <<".", "/", "x">>, <<".", ".", "/", "x">>, <<"x">>, Http,
     <<"h", "t", "t", "p", ":", "/", "/">>, <<"/", "/", "b", ".", "c", "/", "x">>}

URLInputs == {Chars(u) : u \in AbsoluteURLs \cup OtherURLs} \cup {Null}

TargetURL ==
    <<"h", "t", "t", "p", "s", ":", "/", "/", "a", ".", "c", "/", "d", "/", "e", "?", "k">>

NextRewriteURL ==
    \E rw \in Rewriters, url \in URLInputs, targetUrl \in {Chars(TargetURL), Undefined} :
        RewriteURL(rw, url, targetUrl)

SpecRewriteURL == Init /\ [][NextRewriteURL]_vars

(***************************************************************************)
(* SpecRewriteContent: rewriters with and without a custom rule that       *)
(* throws are given contents of every syntax, a Buffer and nothing, under  *)
(* every content type and under none, with options, without, and with      *)
(* null for them.                                                          *)
(***************************************************************************)
ContentRewriters ==
    {[proxyUrl |-> ProxyAddress, blockedDomains |-> <<BlockedDomain>>,
      rewriteRules |-> << >>, ruleThrows |-> throws] : throws \in BOOLEAN}

ContentURLs ==
    <<Chars(Https \o <<":", "/", "/", "a", ".", "c", "/", "x">>), Chars(<<"x">>)>>

Contents ==
    {Content(syntax, ContentURLs) : syntax \in {"css", "javascript", "json", "text"}}
    \cup {Content("html", [i \in 1..Len(ContentURLs) |-> Element("a", ContentURLs[i])])}
    \cup {Content("text", << >>), Buffer, Chars(<< >>), Null}

ContentTypes ==
    {Chars(<<"text/html", ";", "charset=utf-8">>), Chars(<<"text/css">>),
     Chars(<<"application/javascript">>), Chars(<<"application/json">>),
     Chars(<<"text/plain">>), Undefined}

RewriteOptions ==
    {[sessionId |-> Str("s1"), targetUrl |-> Chars(TargetURL)], Undefined, Null}

NextRewriteContent ==
    \E rw \in ContentRewriters, content \in Contents, contentType \in ContentTypes,
       options \in RewriteOptions :
        RewriteContent(rw, content, contentType, options)

SpecRewriteContent == Init /\ [][NextRewriteContent]_vars

(***************************************************************************)
(* SpecRewriteHTML: rewriters with and without a proxy address, a blocked  *)
(* domain, a rule for the href of links and a rule that throws are given   *)
(* documents of one and of two elements.                                   *)
(***************************************************************************)
LinkRule == [selector |-> "a", attribute |-> "href"]

HTMLRewriters ==
    {[proxyUrl |-> proxyUrl, blockedDomains |-> <<BlockedDomain>>,
      rewriteRules |-> rules, ruleThrows |-> throws] :
         proxyUrl \in {ProxyAddress, << >>}, rules \in {<< >>, <<LinkRule>>},
         throws \in BOOLEAN}

DocumentURLs ==
    {Chars(Https \o <<":", "/", "/", "a", ".", "c", "/", "x">>),
     Chars(Http \o <<":", "/", "/">> \o BlockedDomain \o <<"/", "x">>),
     Chars(<<"/", "x">>), Chars(<<"x">>)}

Elements ==
    {Element(tag, value) :
         tag \in {"a", "img", "form", "iframe", "meta", "div", "style"},
         value \in DocumentURLs}

Documents ==
    {Content("html", <<element>>) : element \in Elements}
    \cup {Content("html", <<Element("form", value), Element("a", value)>>) :
              value \in DocumentURLs}

HTMLOptions == {[sessionId |-> Str("s1"), targetUrl |-> Chars(TargetURL)], NoRewriteOptions}

NextRewriteHTML ==
    \E rw \in HTMLRewriters, html \in Documents, options \in HTMLOptions :
        RewriteHTML(rw, html, options)

SpecRewriteHTML == Init /\ [][NextRewriteHTML]_vars

(***************************************************************************)
(* Capacity eviction.                                                      *)
(***************************************************************************)
CreatedIds(n) == {createLog[i].id : i \in (Len(createLog) - n + 1)..Len(createLog)}

\* C1 as stated: once createSession has run MaxSessions + k times (k >= 1) on
\* the empty store with no access in between, the store holds exactly
\* MaxSessions sessions and they are the k most recently created ones.
C1_KMostRecentlyCreated ==
    (onlyCreates /\ last.op = "createSession" /\ Len(createLog) > MaxSessions)
        => /\ Len(sessions) = MaxSessions
           /\ IdsOf(sessions) = CreatedIds(Len(createLog) - MaxSessions)

\* C1 amended: with nothing but creations, the store holds the most recently
\* created sessions in creation order, at most MaxSessions of them, and exactly
\* the MaxSessions most recently created ones as long as the oldest of those
\* has not been idle for longer than SessionTimeout.
C1_MostRecentlyCreatedKept ==
    onlyCreates =>
        /\ Len(sessions) <= Len(createLog)
        /\ \A i \in 1..Len(sessions) :
              sessions[i].id = createLog[Len(createLog) - Len(sessions) + i].id
        /\ (Len(createLog) > MaxSessions => Len(sessions) <= MaxSessions)
        /\ ( /\ Len(createLog) > MaxSessions
             /\ now - createLog[Len(createLog) - MaxSessions + 1].createdAt <= SessionTimeout )
           => /\ Len(sessions) = MaxSessions
              /\ IdsOf(sessions) = CreatedIds(MaxSessions)

C1_Witness ==
    /\ onlyCreates
    /\ last.op = "createSession"
    /\ Len(createLog) > MaxSessions
    /\ swept.cap # {}
    /\ Len(sessions) = MaxSessions
    /\ sessions[1].lastAccessed < sessions[Len(sessions)].lastAccessed

(***************************************************************************)
(* Expiry.                                                                 *)
(***************************************************************************)
SweepOps == {"timer", "createSession"}

\* C2: right after a sweep (the timer's or createSession's) the store holds no
\* session whose idle time now - lastAccessed exceeds SessionTimeout.
C2_NoStaleSessionAfterSweep ==
    last.op \in SweepOps =>
        \A i \in 1..Len(sessions) : now - sessions[i].lastAccessed <= SessionTimeout

C2_Witness ==
    /\ last.op = "timer"
    /\ swept.stale # {}
    /\ sessions # << >>

\* the session has been looked up successfully, the last time no longer than
\* SessionTimeout ago
RecentlyAccessed(id) == touched[id] # 0 /\ now - touched[id] <= SessionTimeout

\* C3 as stated: a session accessed at intervals shorter than SessionTimeout
\* is never removed by any eviction sweep.
C3_AccessedNeverSwept ==
    [][ \A id \in IdsOf(sessions) :
            (RecentlyAccessed(id) /\ last'.op \in SweepOps) => Has(sessions', id) ]_vars

\* C3 amended: a session accessed at intervals no longer than SessionTimeout is
\* never removed by the staleness pass of a sweep (the capacity pass can still
\* remove it).
C3_AccessedNeverStale ==
    [][ \A id \in IdsOf(sessions) :
            (RecentlyAccessed(id) /\ last'.op \in SweepOps) => id \notin swept'.stale ]_vars

\* a session older than SessionTimeout has survived the timer's sweep, having
\* been looked up since it was created
C3_Witness ==
    /\ last.op = "timer"
    /\ \E i \in 1..Len(sessions) :
          /\ now - sessions[i].createdAt > SessionTimeout
          /\ touched[sessions[i].id] > sessions[i].createdAt

\* C4: right after a sweep, hence on return from createSession, the store holds
\* at most MaxSessions sessions.
C4_AtMostMaxSessionsAfterSweep ==
    last.op \in SweepOps => Len(sessions) <= MaxSessions

C4_Witness ==
    /\ last.op = "timer"
    /\ swept.cap # {}
    /\ Len(sessions) = MaxSessions

(***************************************************************************)
(* The timer and the exchanges in flight.                                  *)
(***************************************************************************)
\* C5: the timer's sweep never removes a session that an exchange has looked
\* up and whose proxy request is still in progress.
C5_TimerSparesSessionsInUse ==
    [][ last'.op = "timer" =>
            \A p \in Exchanges :
                (pc[p] = "proxy.request" /\ held[p] # 0 /\ Has(sessions, held[p]))
                    => Has(sessions', held[p]) ]_vars

(***************************************************************************)
(* Cookies.                                                                *)
(***************************************************************************)
IsSuffixOf(a, b) == \E n \in 0..Len(b) : a = SubSeq(b, n + 1, Len(b))
IsPrefixOf(a, b) == \E n \in 0..Len(b) : a = SubSeq(b, 1, n)

\* the entries of a cookie jar that a query for (domain, path) is to return
Due(jar, domain, path) ==
    {j \in 1..Len(jar) : /\ IsSuffixOf(jar[j][2].domain, domain)
                         /\ IsPrefixOf(jar[j][2].path, path)}

\* C6: getCookies(id, domain, path) on a stored session returns a cookie only
\* if the cookie's domain is a suffix of domain and its path a prefix of path,
\* and it returns every cookie of the session for which both hold.
C6_CookiesBySuffixAndPrefix ==
    (last.op = "getCookies" /\ ret.t = "array" /\ Has(sessions, last.id)) =>
        LET jar == Get(sessions, last.id).data.cookies.m
            due == Due(jar, last.domain, last.path)
        IN  /\ Len(ret.m) = Cardinality(due)
            /\ {ret.m[i] : i \in 1..Len(ret.m)} = {<<jar[j][1], jar[j][2].value>> : j \in due}

\* of two stored cookies one is returned and one is held back
C6_Witness ==
    /\ last.op = "getCookies"
    /\ ret.t = "array"
    /\ Has(sessions, last.id)
    /\ Len(Get(sessions, last.id).data.cookies.m) = 2
    /\ Len(ret.m) = 1

(***************************************************************************)
(* Frame conditions of the single operations.                              *)
(***************************************************************************)
\* C7: getSession(id) on a stored id returns that session and sets its
\* lastAccessed to the current time, every other session and field unchanged;
\* on an absent id it returns no session and the store is unchanged.
C7_GetSessionFrame ==
    [][ last'.op = "getSession" =>
            IF Has(sessions, last'.id)
            THEN /\ Len(sessions') = Len(sessions)
                 /\ \A i \in 1..Len(sessions) :
                       sessions'[i] = IF sessions[i].id = last'.id
                                      THEN [sessions[i] EXCEPT !.lastAccessed = now]
                                      ELSE sessions[i]
                 /\ ret' = Get(sessions', last'.id)
            ELSE sessions' = sessions /\ ret' = Undefined ]_vars

\* a lookup has moved the lastAccessed of one of two sessions
C7_Witness ==
    /\ last.op = "getSession"
    /\ Has(sessions, last.id)
    /\ Len(sessions) >= 2
    /\ ret.lastAccessed = now
    /\ ret.lastAccessed > ret.createdAt

\* C8: updateSession(id, partial) returns true exactly when the id is stored;
\* then every top-level key of partial replaces that key of the session's data
\* and every other key keeps its value; when it returns false the store is
\* unchanged.
C8_UpdateShallowMerge ==
    [][ last'.op = "updateSession" =>
            LET id == last'.id
                partial == last'.updates
            IN  /\ ret' = Bool(Has(sessions, id))
                /\ IF Has(sessions, id)
                   THEN /\ Has(sessions', id)
                        /\ LET old == Get(sessions, id).data
                               new == Get(sessions', id).data
                           IN  /\ DOMAIN new = DOMAIN old \cup DOMAIN partial
                               /\ \A k \in DOMAIN partial : new[k] = partial[k]
                               /\ \A k \in DOMAIN old \ DOMAIN partial : new[k] = old[k]
                   ELSE sessions' = sessions ]_vars

\* an update has replaced the settings as a whole, added a key and kept the cookies
C8_Witness ==
    /\ last.op = "updateSession"
    /\ ret = Bool(TRUE)
    /\ "settings" \in DOMAIN last.updates
    /\ LET d == Get(sessions, last.id).data
       IN  /\ d.settings = Obj(<< <<"enableWebSockets", "false">> >>)
           /\ d.note = Str("n")
           /\ d.cookies.m # << >>
           /\ d.userAgent = Str("ua")

\* C9: deleteSession(id) returns true exactly when the id was stored; after it
\* the id is absent and every other session is as it was.
C9_DeleteFrame ==
    [][ last'.op = "deleteSession" =>
            /\ ret' = Bool(Has(sessions, last'.id))
            /\ ~ Has(sessions', last'.id)
            /\ Len(sessions') = Len(sessions) - (IF Has(sessions, last'.id) THEN 1 ELSE 0)
            /\ \A i \in 1..Len(sessions) :
                  sessions[i].id # last'.id
                      => \E j \in 1..Len(sessions') : sessions'[j] = sessions[i] ]_vars

\* one of two sessions has been deleted
C9_Witness ==
    /\ last.op = "deleteSession"
    /\ ret = Bool(TRUE)
    /\ sessions # << >>

(***************************************************************************)
(* Export and import.                                                      *)
(***************************************************************************)
RoundTripKeys ==
    {"cookies", "localStorage", "sessionStorage", "customProxy", "userAgent",
     "headers", "settings"}

\* C10: importSession(exportSession(id)) yields a session with the id, the
\* timestamps, the cookie jar, the storage mirrors, customProxy, userAgent,
\* headers and settings the session had when it was exported.
C10_RoundTripLossless ==
    [][ ( /\ last.op = "exportSession"
          /\ "id" \in DOMAIN ret
          /\ last'.op = "importSession"
          /\ last'.id = ret.id )
        => /\ Has(sessions', ret.id)
           /\ LET exported == Get(sessions, ret.id)
                  imported == Get(sessions', ret.id)
              IN  /\ imported.id = exported.id
                  /\ imported.createdAt = exported.createdAt
                  /\ imported.lastAccessed = exported.lastAccessed
                  /\ \A k \in RoundTripKeys : imported.data[k] = exported.data[k] ]_vars

StatsKeys == {"totalSessions", "maxSessions", "sessionTimeout", "sessions"}
SummaryKeys ==
    {"id", "createdAt", "lastAccessed", "cookieCount", "localStorageCount",
     "sessionStorageCount"}
CountOf == [cookies |-> "cookieCount", localStorage |-> "localStorageCount",
            sessionStorage |-> "sessionStorageCount"]

AbsentOps ==
    {"setCookie", "setLocalStorage", "setSessionStorage", "updateSession",
     "getCookies", "getLocalStorage", "getSessionStorage", "exportSession",
     "getSession"}

AbsentResult(op) ==
    CASE op \in {"setCookie", "setLocalStorage", "setSessionStorage", "updateSession"}
            -> Bool(FALSE)
      [] op = "getCookies" -> Arr(<< >>)
      [] op \in {"getLocalStorage", "getSessionStorage", "exportSession"} -> Null
      [] op = "getSession" -> Undefined

\* C13: for an id the store does not hold, the setters and updateSession
\* return false, getCookies returns the empty list, getLocalStorage,
\* getSessionStorage and exportSession return null and getSession returns no
\* session; none of them raises a failure and the store stays as it is.
C13_AbsentIdIsAValue ==
    [][ (last'.op \in AbsentOps /\ ~ Has(sessions, last'.id))
        => /\ sessions' = sessions
           /\ ret' = AbsentResult(last'.op) ]_vars

\* an update named a session that is gone while another one is stored
C13_Witness ==
    /\ last.op = "updateSession"
    /\ ~ Has(sessions, last.id)
    /\ sessions # << >>
    /\ ret = Bool(FALSE)

(***************************************************************************)
(* Registration of handlers.                                               *)
(***************************************************************************)
\* C14: use(phase, handler) with a phase name other than request, response
\* and error fails and leaves the three lists as they are; with one of the
\* three it puts the handler at the end of that list and leaves the other
\* two as they are.
C14_UseAppendsOrFails ==
    [][ last'.op = "use" =>
          IF last'.type \in Phases
          THEN /\ ret'.t # "throw"
               /\ middlewares'[last'.type] = Append(middlewares[last'.type], last'.handler)
               /\ \A type \in Phases \ {last'.type} :
                     middlewares'[type] = middlewares[type]
          ELSE /\ ret'.t = "throw"
               /\ middlewares' = middlewares ]_vars

\* a second handler has been registered on a phase, another phase has one too
C14_Witness ==
    /\ last.op = "use"
    /\ last.type \in Phases
    /\ Len(middlewares[last.type]) >= 2
    /\ middlewares[last.type][Len(middlewares[last.type])] = last.handler
    /\ \E type \in Phases \ {last.type} : middlewares[type] # << >>

(***************************************************************************)
(* Execution of a phase.                                                   *)
(***************************************************************************)
\* C15: execute calls the handlers of the phase in registration order, the
\* next one right after the one before it has completed, and hands it the
\* context as that one left it: the marks of all handlers registered before
\* it on the phase, in their order.
C15_InRegistrationOrder ==
    \A p \in Exchanges : \A k \in 1..Len(trace[p]) :
        LET e == trace[p][k]
            trail == e.context.trail
        IN  e.ev = "start" =>
              /\ e.i <= Len(middlewares[e.type])
              /\ e.name = middlewares[e.type][e.i].name
              /\ k > 1
              /\ IF e.i = 1
                 THEN /\ trace[p][k - 1].ev = "execute"
                      /\ trace[p][k - 1].type = e.type
                 ELSE /\ trace[p][k - 1].ev = "end"
                      /\ trace[p][k - 1].type = e.type
                      /\ trace[p][k - 1].i = e.i - 1
                      /\ trace[p][k - 1].error = NoError
              /\ e.context = trace[p][k - 1].context
              /\ Len(trail) >= e.i - 1
              /\ \A j \in 1..(e.i - 1) :
                    trail[Len(trail) - (e.i - 1) + j] = middlewares[e.type][j].name

\* the third handler of a phase has been handed the marks of the two before it
C15_Witness ==
    \E k \in 1..Len(trace[1]) :
        /\ trace[1][k].ev = "start"
        /\ trace[1][k].i = 3
        /\ Len(trace[1][k].context.trail) = 2

\* C16: when a handler of the request or the response phase fails, the error
\* phase is executed next, within the same call, with a context that has the
\* fields of the exchange's context as the failing handler left them and the
\* failure as `error`; its first handler, if it has one, is called with it.
C16_ErrorPhaseGetsContextAndFailure ==
    \A p \in Exchanges : \A k \in 1..Len(trace[p]) :
        LET e == trace[p][k]
        IN  (e.ev = "end" /\ e.error # NoError /\ e.type # "error") =>
              /\ k < Len(trace[p])
              /\ trace[p][k + 1].ev = "execute"
              /\ trace[p][k + 1].type = "error"
              /\ trace[p][k + 1].context.error = e.error
              /\ \A field \in DOMAIN e.context \ {"error"} :
                    trace[p][k + 1].context[field] = e.context[field]
              /\ trace[p][k + 1].i > 0 =>
                    /\ k + 1 < Len(trace[p])
                    /\ trace[p][k + 2].ev = "start"
                    /\ trace[p][k + 2].type = "error"
                    /\ trace[p][k + 2].i = 1
                    /\ trace[p][k + 2].context = trace[p][k + 1].context

\* the second handler of a phase has failed and the handler of the error phase
\* has run before the call returned
C16_Witness ==
    /\ last.op = "settle"
    /\ last.done
    /\ \E k \in 1..Len(trace[1]) :
          /\ trace[1][k].ev = "end"
          /\ trace[1][k].error # NoError
          /\ trace[1][k].type = "request"
          /\ trace[1][k].i = 2
          /\ k + 3 <= Len(trace[1])
          /\ trace[1][k + 3].ev = "end"
          /\ trace[1][k + 3].context.trail # trace[1][k].context.trail

\* the failures of the handlers of a call, in the order they were raised
Failures(p) ==
    {k \in 1..Len(trace[p]) : trace[p][k].ev = "end" /\ trace[p][k].error # NoError}

\* C17: when a handler has failed during execute, the failure execute raises
\* to its caller is the failure of that handler, whatever phase it is and
\* whatever the handlers of the error phase do.
C17_OriginalFailureRaised ==
    (last.op \in {"execute", "settle"} /\ last.done) =>
        LET failed == Failures(last.exchange)
        IN  failed # {} =>
              ret = trace[last.exchange][CHOOSE k \in failed : \A j \in failed : k <= j].error

\* C18: in one call the error phase is executed from a catch block exactly
\* once when a handler of the request or response phase has failed, and never
\* otherwise: the failure of a handler of the error phase, escalated to or
\* called directly, does not execute the error phase again.
C18_EscalatesOnce ==
    \A p \in Exchanges :
        LET escalations == {k \in 2..Len(trace[p]) : trace[p][k].ev = "execute"}
            outside == {k \in Failures(p) : trace[p][k].type # "error"}
        IN  /\ Cardinality(escalations) = Cardinality(outside)
            /\ Cardinality(escalations) <= 1
            /\ \A k \in escalations :
                  /\ trace[p][k].type = "error"
                  /\ k - 1 \in outside

\* a handler of the error phase has failed after a failure was escalated to it
C18_Witness ==
    /\ last.op = "settle"
    /\ last.done
    /\ \E k \in 2..Len(trace[1]) : trace[1][k].ev = "execute"
    /\ \E k \in Failures(1) : trace[1][k].type = "error"

(***************************************************************************)
(* Calls in flight at once.                                                *)
(***************************************************************************)
\* C19: with several execute calls in flight, in each call a handler is
\* called only after the handler before it, of that call, has settled, so
\* that at most one handler of a call is running at any time.
C19_SequentialWithinEachCall ==
    \A p \in Exchanges :
        LET called == {k \in 1..Len(trace[p]) : trace[p][k].ev = "start"}
            settled == {k \in 1..Len(trace[p]) : trace[p][k].ev = "end"}
        IN  /\ Cardinality(called) - Cardinality(settled) \in {0, 1}
            /\ \A k \in called :
                  trace[p][k].i > 1 =>
                      \E j \in settled :
                          /\ j < k
                          /\ trace[p][j].type = trace[p][k].type
                          /\ trace[p][j].i = trace[p][k].i - 1

\* two calls are in flight, each at its second handler or beyond
C19_Witness ==
    /\ \A p \in {1, 2} : stack[p] # << >> /\ stack[p][Len(stack[p])].i >= 2
    /\ Len(trace[1]) # Len(trace[2])

(***************************************************************************)
(* Rate limiting.                                                          *)
(***************************************************************************)
\* C20: counted from a request that found nothing recorded for its address,
\* and as long as no more than WindowMs has passed since that request, the
\* first MaxRequests requests of the address are admitted and the request
\* after them raises the rate-limit failure.
C20_FirstNAdmittedNextRejected ==
    (last.op = "rateLimiter" /\ last.ip # "") =>
        LET a == asked[last.ip]
        IN  now - a.first <= WindowMs =>
              /\ a.count <= MaxRequests => ret = Undefined
              /\ a.count = MaxRequests + 1 => ret = RateLimitExceeded

\* the request after the MaxRequests admitted ones has been rejected, later
\* than the first but inside its window
C20_Witness ==
    /\ last.op = "rateLimiter"
    /\ last.ip = "a"
    /\ asked["a"].count = MaxRequests + 1
    /\ asked["a"].first < now
    /\ now - asked["a"].first <= WindowMs
    /\ ret = RateLimitExceeded
    /\ Len(RequestsOf(requests, "a")) = MaxRequests

(***************************************************************************)
(* The class's handlers.                                                   *)
(***************************************************************************)
\* the kind of the handler an event of a call is about
KindAt(e) == HandlerAt(middlewares[e.type], e.i).kind

\* the events of exchange 1 at which a handler of a kind settled
Settled(kind) ==
    {k \in 1..Len(trace[1]) : trace[1][k].ev = "end" /\ KindAt(trace[1][k]) = kind}

\* C21: with rateLimiter on the request phase and errorHandler on the error
\* phase, a call for a request over the limit ends with the response's status
\* 429 and the error page written to it; and whenever errorHandler settles on a
\* context with a failure and a response, the status is the failure's
\* statusCode, or 500 when the failure has none.
C21_LimitExceededAnswered ==
    LET tr == trace[1]
    IN  /\ \A k \in Settled("errorHandler") :
               LET error == tr[k].context.error
                   before == tr[k - 1].context.response
                   response == tr[k].context.response
               IN  (error # NoError /\ before # Null) =>
                       /\ response.statusCode =
                              IF error.statusCode = 0 THEN 500 ELSE error.statusCode
                       /\ response.ended
                       /\ response.body # << >>
                       /\ ~ before.ended => response.body = ErrorPage(error.message)
        /\ ( /\ last.op = "settle" /\ last.done
             /\ \E k \in Settled("rateLimiter") : tr[k].error # NoError
             /\ \E i \in 1..Len(middlewares.error) :
                    middlewares.error[i].kind = "errorHandler"
             /\ tr[1].context.response # Null )
           => LET response == tr[Len(tr)].context.response
              IN  /\ response.statusCode = 429
                  /\ response.ended
                  /\ response.body = ErrorPage("Rate limit exceeded")

C21_Witness ==
    /\ last.op = "settle" /\ last.done
    /\ \E k \in Settled("rateLimiter") : trace[1][k].error.statusCode = 429
    /\ Settled("errorHandler") # {}
    /\ trace[1][1].context.response = NewResponse(UpstreamHeaders)
    /\ trace[1][Len(trace[1])].context.response.statusCode = 429
    /\ trace[1][Len(trace[1])].context.response.body = ErrorPage("Rate limit exceeded")

\* C22 as stated: once securityHeaders has completed on a context with a
\* response, the response carries none of Strict-Transport-Security,
\* Content-Security-Policy, X-Frame-Options, X-Content-Type-Options,
\* Referrer-Policy and Permissions-Policy, and it carries X-Proxy-By.
C22_SecurityHeadersGone ==
    \A k \in Settled("securityHeaders") :
        LET response == trace[1][k].context.response
        IN  (response # Null /\ trace[1][k].error = NoError) =>
                /\ \A j \in 1..Len(SecurityHeaderNames) :
                       ~ hasHeader(response, SecurityHeaderNames[j])
                /\ hasHeader(response, "X-Proxy-By")

(***************************************************************************)
(* The URL rewriter.                                                       *)
(***************************************************************************)
\* the URLs new URL() accepts as http or https URLs
IsHttpURL(v) ==
    /\ v.t = "chars"
    /\ ParseURL(v.m).ok
    /\ ParseURL(v.m).protocol \in {Http \o <<":">>, Https \o <<":">>}

\* the value of the parameter url of a gateway URL, still encoded
UrlParameter(str) ==
    LET value == From(str, IndexOfAny(str, {"?"}) + 5)
        stop == IndexOfAny(value, {"&", "#"})
    IN  IF stop = 0 THEN value ELSE Upto(value, stop - 1)

\* the gateway form of the URL u under the rewriter rw
GatewayForm(rw, u) == Chars(rw.proxyUrl \o Gateway \o encodeURIComponent(u))

\* C23 as stated: for every well-formed absolute http(s) URL u whose host holds
\* no blocked domain, rewriteURL(u, targetURL) is the gateway address followed
\* by the percent-encoding of u, and decoding its url parameter gives u back.
C23_GatewayRoundTrip ==
    ( /\ last.op = "rewriteURL"
      /\ IsHttpURL(last.url)
      /\ ~ Blocked(last.rewriter, ParseURL(last.url.m).hostname) )
    => /\ ret = GatewayForm(last.rewriter, last.url.m)
       /\ decodeURIComponent(UrlParameter(ret.m)) = last.url.m

\* C24 as stated: a parsable http(s) URL is returned as it is exactly when a
\* blocked domain is a suffix of its host, and is rewritten to the gateway form
\* otherwise, also when its host holds a blocked domain elsewhere.
C24_BlockedBySuffix ==
    (last.op = "rewriteURL" /\ IsHttpURL(last.url))
    => LET rw == last.rewriter
           hostname == ParseURL(last.url.m).hostname
       IN  IF \E i \in 1..Len(rw.blockedDomains) : endsWith(hostname, rw.blockedDomains[i])
           THEN ret = last.url
           ELSE ret = GatewayForm(rw, last.url.m)

\* the rewriter of the content's type fails inside: a custom rule throws while
\* the HTML is rewritten, the CSS or the JavaScript is no string, the JSON
\* does not parse
FailsInside(rw, content, contentType) ==
    LET is(type) == contentType.t = "chars" /\ Includes(contentType.m, <<type>>)
    IN  \/ is("text/html") /\ rw.ruleThrows
        \/ (is("text/css") \/ is("application/javascript")) /\ content.t = "buffer"
        \/ is("application/json") /\ (content.t # "content" \/ content.s # "json")

NoRewriterFor(contentType) ==
    \/ contentType.t # "chars"
    \/ \A type \in {"text/html", "text/css", "application/javascript", "application/json"} :
           ~ Includes(contentType.m, <<type>>)

\* what is left of C25 when the call does not reject: a rewrite that fails
\* inside, or a content type without a rewriter, gives the content back
ContentBackOnFailure ==
    ( /\ last.op = "rewriteContent"
      /\ ret # Threw("TypeError")
      /\ \/ FailsInside(last.rewriter, last.content, last.contentType)
         \/ NoRewriterFor(last.contentType) )
    => ret = last.content

\* C25 as stated: rewriteContent never raises, for any content, content type
\* and options; and when the rewriter of the type fails inside, or the type is
\* none of HTML, CSS, JavaScript and JSON, the result is the content as it was.
C25_NeverRaises ==
    last.op = "rewriteContent" => (ret # Threw("TypeError") /\ ContentBackOnFailure)

(***************************************************************************)
(* The sweep and the bound of the store.                                   *)
(***************************************************************************)
\* a step of a sweep: the ids the sweep starts from (createSession's with the
\* session it has just installed) and the lastAccessed each of them has
SweptFrom == IdsOf(sessions) \cup (IF last'.op = "createSession" THEN {last'.id} ELSE {})

LastAccessedBefore(id) == IF Has(sessions, id) THEN Get(sessions, id).lastAccessed ELSE now

NonStaleBefore == {id \in SweptFrom : now - LastAccessedBefore(id) <= SessionTimeout}

\* C26: in one sweep a session that is not stale is removed only if the number
\* of sessions that are not stale exceeds MaxSessions; then exactly that number
\* minus MaxSessions of them are removed, and every session that survives has a
\* lastAccessed no earlier than that of every session removed for capacity.
C26_StalenessThenCapacity ==
    [][ last'.op \in SweepOps =>
            LET removed == NonStaleBefore \ IdsOf(sessions')
            IN  /\ removed # {} => Cardinality(NonStaleBefore) > MaxSessions
                /\ Cardinality(removed) =
                       IF Cardinality(NonStaleBefore) > MaxSessions
                       THEN Cardinality(NonStaleBefore) - MaxSessions ELSE 0
                /\ \A r \in removed : \A i \in 1..Len(sessions') :
                       sessions'[i].lastAccessed >= LastAccessedBefore(r) ]_vars

\* createSession's sweep has removed for capacity a session that was not
\* stale, and has kept one whose lastAccessed is later than the clock shows
C26_Witness ==
    /\ last.op = "createSession"
    /\ swept.stale = {}
    /\ swept.cap # {}
    /\ Len(sessions) = MaxSessions
    /\ \E i \in 1..Len(sessions) : sessions[i].lastAccessed > now

\* C27 as stated: the id createSession returns names a session of the store
\* when it returns: its sweep never removes the session it has just created,
\* whatever sessions, created or imported with any timestamps, the store holds.
C27_CreatedSessionKept ==
    last.op = "createSession" => Has(sessions, ret)

PublicOps ==
    {"createSession", "importSession", "updateSession", "getSession", "deleteSession",
     "setCookie", "getCookies", "setLocalStorage", "getLocalStorage",
     "setSessionStorage", "getSessionStorage", "getAllLocalStorage", "exportSession"}

\* C28 as stated: on return from every public operation of the store, not only
\* from createSession, the store holds at most MaxSessions sessions.
C28_BoundedAfterEveryOperation ==
    last.op \in PublicOps => Len(sessions) <= MaxSessions

JarFields == {"cookies", "localStorage", "sessionStorage"}

JarOps ==
    {"setCookie", "getCookies", "setLocalStorage", "getLocalStorage",
     "setSessionStorage", "getSessionStorage", "getAllLocalStorage", "exportSession"}

\* C29 as stated: in every reachable state the cookie jar and the two storage
\* mirrors of every stored session are Maps, and setCookie, getCookies, the
\* storage accessors and exportSession never fail.
C29_JarsStayMaps ==
    /\ \A i \in 1..Len(sessions) : \A f \in JarFields : IsMap(sessions[i].data[f])
    /\ last.op \in JarOps => ret # Threw("TypeError")

\* the store after a call of createSession at the time t
AfterCreate(ss, t) == cleanupOldSessions(MapSet(ss, NewSession(nextId, t, NoOptions)), t)

\* the session with this id is looked up after an idle time longer than
\* SessionTimeout, before any sweep has removed it
ExpiredLookup(id) ==
    /\ last'.op = "getSession"
    /\ last'.id = id
    /\ Has(sessions, id)
    /\ now - Get(sessions, id).lastAccessed > SessionTimeout

\* C30 as stated: getSession on a session whose idle time exceeds
\* SessionTimeout and that no sweep has removed yet returns the session and
\* sets its lastAccessed to the time of the call, so that the session survives
\* the sweep that follows, the timer's or createSession's.
C30_ExpiredLookupSurvivesSweep ==
    [][ \A id \in Ids : ExpiredLookup(id) =>
            /\ ret' = Get(sessions', id)
            /\ ret'.lastAccessed = now
            /\ Has(cleanupOldSessions(sessions', now), id)
            /\ Has(AfterCreate(sessions', now), id) ]_vars

\* C30 amended: the lookup returns the session and sets its lastAccessed to the
\* time of the call, so that the staleness pass of a sweep that follows within
\* SessionTimeout does not remove it.
C30_ExpiredLookupRefreshes ==
    [][ \A id \in Ids : ExpiredLookup(id) =>
            /\ ret' = Get(sessions', id)
            /\ ret'.lastAccessed = now
            /\ \A t \in now..(now + SessionTimeout) :
                   /\ Has(RemoveStale(sessions', t), id)
                   /\ id \notin SweptBy(sessions', t).stale ]_vars

\* a session created more than SessionTimeout ago has been looked up, for the
\* first time, after the timeout and has then survived the timer's sweep
C30_Witness ==
    /\ last.op = "timer"
    /\ \E i \in 1..Len(sessions) :
          /\ touched[sessions[i].id] = sessions[i].lastAccessed
          /\ sessions[i].lastAccessed = now
          /\ now - sessions[i].createdAt > SessionTimeout
          /\ sessions[i].createdAt # 0

(***************************************************************************)
(* What a failure leaves behind.                                           *)
(***************************************************************************)
\* C31: once handler i of a phase has failed in a call of execute, no handler
\* registered after i on that phase is called in that call; and the context
\* the caller passed in never has the failure as its error: only the copy
\* handed to the error phase has.
C31_FailureStopsPhaseAndSparesContext ==
    /\ \A k \in 1..Len(trace[1]) : \A l \in (k + 1)..Len(trace[1]) :
           (trace[1][k].ev = "end" /\ trace[1][k].error # NoError) =>
               ~ (trace[1][l].ev = "start" /\ trace[1][l].type = trace[1][k].type)
    /\ last.op \in {"execute", "settle"} => last.context.error = NoError

\* a call has failed at a handler that was not the last of its phase, the
\* error phase has run a handler on the copy, and the call has returned
C31_Witness ==
    /\ last.op = "settle" /\ last.done
    /\ ret # Undefined
    /\ last.context.trail # << >>
    /\ \E k \in 1..Len(trace[1]) :
          /\ trace[1][k].ev = "end"
          /\ trace[1][k].error # NoError
          /\ trace[1][k].type # "error"
          /\ trace[1][k].i < Len(middlewares[trace[1][k].type])
          /\ \E l \in (k + 1)..Len(trace[1]) :
                /\ trace[1][l].ev = "end"
                /\ trace[1][l].type = "error"
                /\ trace[1][l].context.error = trace[1][k].error

(***************************************************************************)
(* The rate limiter's window.                                              *)
(***************************************************************************)
\* the timestamps of a list that are not older than the window at time t
InWindow(list, t) == SelectSeq(list, LAMBDA x : x >= t - WindowMs)

\* C32: a request the rate limiter rejects is not recorded: after the
\* rejection the list of its address holds what it held, less the timestamps
\* older than the window, and the lists of the other addresses are as they
\* were; so the oldest timestamp that blocks the address is not moved.
C32_RejectionNotRecorded ==
    [][ (last'.op = "rateLimiter" /\ ret' = RateLimitExceeded) =>
            LET ip == last'.ip
                before == RequestsOf(requests, ip)
                after == RequestsOf(requests', ip)
            IN  /\ after = InWindow(before, now)
                /\ after # << >> /\ Head(after) = Head(InWindow(before, now))
                /\ \A c \in Clients \ {ip} : RequestsOf(requests', c) = RequestsOf(requests, c)
      ]_vars

\* an address has been rejected a second time, later than every timestamp
\* recorded for it
C32_Witness ==
    /\ last.op = "rateLimiter"
    /\ ret = RateLimitExceeded
    /\ asked[last.ip].count >= MaxRequests + 2
    /\ LET list == RequestsOf(requests, last.ip)
       IN  Len(list) = MaxRequests /\ list[Len(list)] < now


\* C33: as the clock never goes back, among the requests of an address that
\* were admitted the one MaxRequests places after another is more than
\* WindowMs later than it, so that no interval of length WindowMs holds more
\* than MaxRequests admitted requests of the address; and a request that finds
\* a full list whose oldest timestamp is more than WindowMs old is admitted.
C33_SlidingWindow ==
    /\ [](\A c \in Clients :
            LET admitted == asked[c].admitted
            IN  /\ \A i \in 1..(Len(admitted) - 1) : admitted[i] <= admitted[i + 1]
                /\ \A i \in 1..(Len(admitted) - MaxRequests) :
                       admitted[i + MaxRequests] - admitted[i] > WindowMs)
    /\ [][ (last'.op = "rateLimiter" /\ last'.ip # "") =>
               LET before == RequestsOf(requests, last'.ip)
               IN  (Len(before) >= MaxRequests /\ now - before[1] > WindowMs) =>
                       /\ ret' = Undefined
                       /\ LET after == RequestsOf(requests', last'.ip)
                          IN  after # << >> /\ after[Len(after)] = now
         ]_vars

\* an address whose window was full has been admitted again, as soon as the
\* oldest of the window's requests was more than WindowMs old
C33_Witness ==
    /\ last.op = "rateLimiter"
    /\ last.ip = "a"
    /\ ret = Undefined
    /\ LET admitted == asked["a"].admitted
       IN  /\ Len(admitted) = MaxRequests + 1
           /\ admitted[MaxRequests] - admitted[1] <= WindowMs
           /\ admitted[MaxRequests + 1] = now
           /\ now - admitted[1] = WindowMs + 1


(***************************************************************************)
(* Rate limiting by address and by limiter.                                *)
(***************************************************************************)
\* the Map a call of a limiter's handler leaves the other addresses of: they
\* keep their timestamps, and their next request, whenever it comes, is
\* admitted or rejected as it would have been
OthersUntouched(before, after, ip) ==
    \A c \in Clients \ {ip} :
        /\ RequestsOf(after, c) = RequestsOf(before, c)
        /\ \A t \in now..MaxTime :
               rateLimiter(after, c, t).threw = rateLimiter(before, c, t).threw

\* C34: a request of one address, admitted or rejected, changes neither the
\* timestamps a limiter holds for another address nor whether that address's
\* next request is admitted; and a request to the limiter of one rateLimiter()
\* call changes nothing of the limiter of another call, whose Map alone
\* decides what it admits.
C34_PerAddressPerLimiter ==
    [][ /\ (last'.op = "rateLimiter" /\ last'.ip # "") =>
               /\ OthersUntouched(requests, requests', last'.ip)
               /\ limiters' = limiters
        /\ (last'.op = "createdRateLimiter" /\ last'.ip # "") =>
               LET k == last'.limiter
               IN  /\ OthersUntouched(limiters[k], limiters'[k], last'.ip)
                   /\ requests' = requests
                   /\ \A j \in 1..Len(limiters) : j # k => limiters'[j] = limiters[j]
                   /\ (ret' = RateLimitExceeded) <=>
                          Len(InWindow(RequestsOf(limiters[k], last'.ip), now)) >= MaxRequests
      ]_vars

\* the further limiter has admitted an address that the first limiter rejects
\* at that time, and holds timestamps of another address that it has rejected
C34_Witness ==
    /\ last.op = "createdRateLimiter"
    /\ last.ip = "a"
    /\ ret = Undefined
    /\ rateLimiter(requests, "a", now).threw
    /\ RequestsOf(limiters[1], "a") # << >>
    /\ rateLimiter(limiters[1], "unknown", now).threw


(***************************************************************************)
(* The passes of rewriteHTML.                                              *)
(***************************************************************************)
\* a gateway URL of the rewriter whose url parameter holds a gateway URL
WrapsGateway(rw, value) ==
    /\ value.t = "chars"
    /\ startsWith(value.m, rw.proxyUrl \o Gateway)
    /\ LET inner == decodeURIComponent(UrlParameter(value.m))
       IN  inner # DecodeFailed /\ Includes(inner, Gateway)

\* what rewriteHTML made of the elements, among those of tags, whose href, src
\* or action it rewrites: each is rewriteURL of the value the document had, and
\* no gateway URL around a gateway URL
RewrittenOnce(tags) ==
    (last.op = "rewriteHTML" /\ ~ last.rewriter.ruleThrows) =>
        \A i \in 1..Len(last.html.m) :
            last.html.m[i].tag \in tags =>
                /\ ret.m[i].value =
                       rewriteURL(last.rewriter, last.html.m[i].value, last.options.targetUrl)
                /\ ~ WrapsGateway(last.rewriter, ret.m[i].value)

\* C35 as stated: after all the passes of rewriteHTML the value of every href,
\* src and action attribute, those of forms and iframes among them, is
\* rewriteURL of its original value, and never a gateway URL that wraps a
\* gateway URL.
C35_EveryAttributeRewrittenOnce == RewrittenOnce(Reflecting)

====
